---- MODULE Spec2Model ----
(***************************************************************************)
(* Model of the WebsiteAnalyzer repository:                                *)
(*   - evaluateWebsite         (src/website-evaluator.js, lines 243-611)   *)
(*   - WebsiteAnalyzer.scrapeResults and its helpers                       *)
(*                             (src/website-analyzer.js)                   *)
(*   - scrapeBusinesses        (src/main.js, lines 55-318)                 *)
(* The browser, the result feed and the evaluated web sites are the        *)
(* environment: what they return is chosen nondeterministically from       *)
(* bounded sets.                                                           *)
(***************************************************************************)
EXTENDS Integers, Sequences, FiniteSets, TLC

VARIABLES
  \* ---- evaluateWebsite, run on its own ----
  evalInput,             \* the argument and the environment of one call
  evaluation,            \* what the call produced
  epc,                   \* "ready" before the call, "done" after it
  \* ---- captureScreenshot, run on its own ----
  shotInput,             \* what the browser does during one call
  screenshot,            \* what the call produced
  spc,                   \* "ready" before the call, "done" after it
  \* ---- the page operations of one evaluateWebsite call, step by step ----
  opc,                   \* index in PageOperations of the operation the call is at
  inFlight,              \* operations started and not yet settled
  \* ---- the page both discovery programs drive ----
  listing,               \* feed entries in the DOM (.Nv2PK), in order
  loaded,                \* every feed entry the page has loaded so far
  panel,                 \* detail panel: <<>> closed, <<e>> showing entry e
  clicks,                \* listing clicks the page has received
  evaluated,             \* URLs handed to evaluateWebsite, in call order
  faults,                \* browser operations that failed during the last step
  quietSweeps,           \* history: completed sweeps in a row that added no new name
  newNameInSweep,        \* history: the current sweep has added a new name
  \* ---- WebsiteAnalyzer (website-analyzer.js) ----
  processedBusinesses,   \* module-level Set of names
  allBusinesses,         \* this.allBusinesses
  lowScoringBusinesses,  \* this.lowScoringBusinesses, as indexes of allBusinesses
  noNewResultsScrolls,
  foundNewBusiness,
  businessElements,      \* snapshot taken by page.$$('.Nv2PK')
  ai,                    \* position of the for loop in businessElements
  apc,                   \* position of scrapeResults
  \* ---- scrapeBusinesses (main.js) ----
  maxBusinesses,
  qualityThreshold,
  businesses,
  businessesWithoutWebsites,
  processedWebsites,
  processedBusinessNames,
  collectedBusinesses,
  needScrolling,
  mElements,             \* snapshot taken by page.$$('.Nv2PK')
  mi,                    \* position of the for loop in mElements
  mpc                    \* position of scrapeBusinesses

evalVars == <<evalInput, evaluation, epc, shotInput, screenshot, spc,
              opc, inFlight>>
pageVars == <<listing, loaded, panel, clicks, evaluated, faults>>
historyVars == <<quietSweeps, newNameInSweep>>
analyzerVars == <<processedBusinesses, allBusinesses, lowScoringBusinesses,
                  noNewResultsScrolls, foundNewBusiness, businessElements,
                  ai, apc>>
mainVars == <<maxBusinesses, qualityThreshold, businesses,
              businessesWithoutWebsites, processedWebsites,
              processedBusinessNames, collectedBusinesses, needScrolling,
              mElements, mi, mpc>>
vars == <<evalVars, pageVars, historyVars, analyzerVars, mainVars>>

-----------------------------------------------------------------------------
(* Helpers *)

Min(a, b) == IF a < b THEN a ELSE b
Max(a, b) == IF a > b THEN a ELSE b

RECURSIVE SumPenalties(_)
SumPenalties(fs) ==
  IF fs = <<>> THEN 0 ELSE Head(fs).pen + SumPenalties(Tail(fs))

\* Math.max(...years) of a non-empty set of years
SetMax(S) == CHOOSE y \in S : \A z \in S : z <= y

-----------------------------------------------------------------------------
(* evaluateWebsite: src/website-evaluator.js, second definition (243-611). *)
(* Scores are kept in quarter points, the unit of the SEO contribution     *)
(* (100 - seoScore) / 4, so that a score is an integer multiple of 1/4.    *)

ScoreScale == 4
Pts(n) == n * ScoreScale

SecondsPerDay == 86400
\* The clock is read in ticks: TicksPerSecond ticks in one second.
TicksPerSecond == 2

Issue(k, n) == [k |-> k, n |-> n]
Finding(pen, k, n) == [pen |-> pen, k |-> k, n |-> n]

\* score -= pts; issues.push(...)
PenalizeAdding(s, pts, k, n) ==
  [score |-> s.score + Pts(pts), issues |-> Append(s.issues, Issue(k, n))]

Penalize(s, pts, k, n) ==
  [score |-> s.score - Pts(pts), issues |-> Append(s.issues, Issue(k, n))]

\* A URL is a scheme prefix and the rest; the empty string is <<"", "">>.
Url(scheme, rest) == [scheme |-> scheme, rest |-> rest]
NoUrl == Url("", "")

\* if (!url.startsWith('http://') && !url.startsWith('https://')) url = 'https://' + url
NormalizeUrl(u) ==
  IF u.scheme # "http://" /\ u.scheme # "https://"
  THEN Url("https://", u.rest) ELSE u

CheckStatusServerErrorsOnly(s, p) ==
  IF p.status >= 500
  THEN [score |-> Pts(15), issues |-> Append(s.issues, Issue("http-error", p.status))]
  ELSE s

\* status >= 400: score = 15
CheckStatus(s, p) ==
  IF p.status >= 400
  THEN [score |-> Pts(15), issues |-> Append(s.issues, Issue("http-error", p.status))]
  ELSE s

\* matchMedia('(max-width: 768px)').matches || querySelector('meta[name="viewport"]') !== null
IsMobile(p) == p.mediaNarrow \/ p.viewport # "absent"

CheckMobileSilent(s, p) ==
  IF ~IsMobile(p) THEN [s EXCEPT !.score = s.score - Pts(15)] ELSE s

CheckMobile(s, p) ==
  IF ~IsMobile(p) THEN Penalize(s, 15, "not-mobile", 0) ELSE s

CheckLoadTime(s, p) ==
  IF p.loadTime > 3000 THEN Penalize(s, 10, "slow", p.loadTime) ELSE s

\* Math.floor((validTo - now) / (60 * 60 * 24)), now = Date.now() / 1000
DaysUntilExpiry(p) ==
  (p.validTo * TicksPerSecond - p.nowTicks) \div (SecondsPerDay * TicksPerSecond)

Abs(n) == IF n < 0 THEN -n ELSE n

CheckSsl(s, p) ==
  IF ~p.secure \/ ~p.finalHttps
  THEN Penalize(s, 15, "no-certificate", 0)
  ELSE IF DaysUntilExpiry(p) < 0
       THEN Penalize(s, 15, "certificate-expired", Abs(DaysUntilExpiry(p)))
       ELSE IF DaysUntilExpiry(p) < 30
            THEN Penalize(s, 5, "certificate-expires", DaysUntilExpiry(p))
            ELSE s

CheckMixedContent(s, p) ==
  IF p.mixed THEN Penalize(s, 5, "mixed-content", 0) ELSE s

CheckResponsive(s, p) ==
  IF ~p.responsive THEN Penalize(s, 15, "not-responsive", 0) ELSE s

TitleFindingsLongAt30(p) ==
  IF p.titleLen = 0 THEN <<Finding(10, "seo-title-missing", 0)>>
  ELSE IF p.titleLen < 10 THEN <<Finding(5, "seo-title-short", p.titleLen)>>
  ELSE IF p.titleLen > 30 THEN <<Finding(3, "seo-title-long", p.titleLen)>>
  ELSE <<>>

TitleFindings(p) ==
  IF p.titleLen = 0 THEN <<Finding(10, "seo-title-missing", 0)>>
  ELSE IF p.titleLen < 10 THEN <<Finding(5, "seo-title-short", p.titleLen)>>
  ELSE IF p.titleLen > 60 THEN <<Finding(3, "seo-title-long", p.titleLen)>>
  ELSE <<>>

MetaFindings(p) ==
  IF p.metaLen = 0 THEN <<Finding(8, "seo-meta-missing", 0)>>
  ELSE IF p.metaLen < 50 THEN <<Finding(4, "seo-meta-short", p.metaLen)>>
  ELSE IF p.metaLen > 160 THEN <<Finding(3, "seo-meta-long", p.metaLen)>>
  ELSE <<>>

HeadingFindings(p) ==
  (IF p.h1Count = 0 THEN <<Finding(8, "seo-no-h1", 0)>>
   ELSE IF p.h1Count > 1 THEN <<Finding(5, "seo-multiple-h1", p.h1Count)>>
   ELSE <<>>)
  \o (IF p.h2Count = 0 THEN <<Finding(3, "seo-no-h2", 0)>> ELSE <<>>)

CanonicalFindings(p) ==
  IF ~p.canonical THEN <<Finding(3, "seo-no-canonical", 0)>> ELSE <<>>

RobotsFindings(p) ==
  IF p.robots = "absent" THEN <<Finding(2, "seo-no-robots", 0)>>
  ELSE IF p.robots \in {"noindex", "nofollow"}
       THEN <<Finding(10, "seo-blocked", 0)>>
       ELSE <<>>

StructuredDataFindings(p) ==
  IF ~p.structuredData THEN <<Finding(5, "seo-no-schema", 0)>> ELSE <<>>

OpenGraphFindings(p) ==
  IF ~({"title", "description", "image"} \subseteq p.og)
  THEN <<Finding(3, "seo-no-opengraph", 0)>> ELSE <<>>

\* $('meta[name="viewport"]').attr('content') is falsy without the tag or its content
ViewportFindings(p) ==
  IF p.viewport # "present" THEN <<Finding(5, "seo-no-viewport", 0)>> ELSE <<>>

SeoFindings(p) ==
  TitleFindings(p) \o MetaFindings(p) \o HeadingFindings(p)
    \o CanonicalFindings(p) \o RobotsFindings(p) \o StructuredDataFindings(p)
    \o OpenGraphFindings(p) \o ViewportFindings(p)

SeoScore(p) == 100 - SumPenalties(SeoFindings(p))

SeoCap == 20
SeoDamping == 4

SeoContributionUndamped(p) ==
  Min(Pts(SeoCap), (100 - SeoScore(p)) * ScoreScale)

\* score -= Math.min(20, (100 - seoScore) / 4), in quarter points
SeoContribution(p) ==
  Min(Pts(SeoCap), ((100 - SeoScore(p)) * ScoreScale) \div SeoDamping)

RECURSIVE FindingIssues(_)
FindingIssues(fs) ==
  IF fs = <<>> THEN <<>>
  ELSE <<Issue(Head(fs).k, Head(fs).n)>> \o FindingIssues(Tail(fs))

CheckSeo(s, p) ==
  IF Len(SeoFindings(p)) > 0
  THEN [score |-> s.score - SeoContribution(p),
        issues |-> s.issues \o FindingIssues(SeoFindings(p))]
  ELSE s

\* images.filter(img => !$(img).attr('alt')).length
ImagesWithoutAlt(p) == Cardinality({i \in 1..Len(p.images) : ~p.images[i].alt})

\* JavaScript numbers are IEEE-754 doubles: a double is kept as its 53
\* significand bits m (most significant first, m[1] = 1) and the exponent e
\* of the last of them, so that its value is ValueOf(m) * 2^e. Quotients are
\* expanded in hexadecimal digits; a denominator stays below 2^27.
MantissaBits == 53
DigitBits == 4
DigitBase == 16
QuotientDigitCount == 14

Zeros(k) == [i \in 1..k |-> 0]

\* number of zero bits that follow the binary point of r / n, 0 < r < n
RECURSIVE LeadingZeros(_, _)
LeadingZeros(r, n) == IF 2 * r >= n THEN 0 ELSE 1 + LeadingZeros(2 * r, n)

\* the first k hexadecimal digits of r / n after the point, 0 <= r < n, and
\* what is left of r after them
RECURSIVE QuotientDigits(_, _, _)
QuotientDigits(r, n, k) ==
  IF k = 0 THEN [digits |-> <<>>, rest |-> r]
  ELSE LET q == QuotientDigits((DigitBase * r) % n, n, k - 1)
       IN [digits |-> <<(DigitBase * r) \div n>> \o q.digits, rest |-> q.rest]

\* digits * c + carry, in hexadecimal digits
RECURSIVE TimesSmall(_, _, _)
TimesSmall(digits, c, carry) ==
  IF digits = <<>>
  THEN IF carry = 0 THEN <<>>
       ELSE Append(TimesSmall(<<>>, c, carry \div DigitBase), carry % DigitBase)
  ELSE LET v == digits[Len(digits)] * c + carry
       IN Append(TimesSmall(SubSeq(digits, 1, Len(digits) - 1), c, v \div DigitBase),
                 v % DigitBase)

RECURSIVE ValueOf(_)
ValueOf(bits) ==
  IF bits = <<>> THEN 0
  ELSE 2 * ValueOf(SubSeq(bits, 1, Len(bits) - 1)) + bits[Len(bits)]

BitsOfDigits(digits) ==
  [i \in 1..(DigitBits * Len(digits)) |->
     (digits[((i - 1) \div DigitBits) + 1]
        \div (2 ^ (DigitBits - 1 - ((i - 1) % DigitBits)))) % 2]

DigitsOfBits(bits) ==
  LET lead == (DigitBits - (Len(bits) % DigitBits)) % DigitBits
      padded == Zeros(lead) \o bits
  IN [j \in 1..(Len(padded) \div DigitBits) |->
        ValueOf(SubSeq(padded, DigitBits * (j - 1) + 1, DigitBits * j))]

RECURSIVE Normalized(_)
Normalized(bits) ==
  IF bits = <<>> \/ bits[1] = 1 THEN bits ELSE Normalized(Tail(bits))

PlusOne(bits) ==
  IF \A i \in 1..Len(bits) : bits[i] = 1 THEN <<1>> \o Zeros(Len(bits))
  ELSE LET last == CHOOSE i \in 1..Len(bits) :
                     bits[i] = 0 /\ \A j \in (i + 1)..Len(bits) : bits[j] = 1
       IN [i \in 1..Len(bits) |->
             IF i < last THEN bits[i] ELSE IF i = last THEN 1 ELSE 0]

\* the double nearest to ValueOf(bits) * 2^e (plus a nonzero tail below the
\* last bit when sticky), ties to the even significand
RoundToDouble(bits, e, sticky) ==
  LET len == Len(bits)
  IN IF len <= MantissaBits
     THEN [m |-> bits \o Zeros(MantissaBits - len),
           e |-> e - (MantissaBits - len)]
     ELSE LET keep == SubSeq(bits, 1, MantissaBits)
              rest == SubSeq(bits, MantissaBits + 1, len)
              more == sticky \/ \E i \in 2..Len(rest) : rest[i] = 1
              up == rest[1] = 1 /\ (more \/ keep[MantissaBits] = 1)
              raised == PlusOne(keep)
          IN IF ~up THEN [m |-> keep, e |-> e + Len(rest)]
             ELSE IF Len(raised) > MantissaBits
                  THEN [m |-> SubSeq(raised, 1, MantissaBits),
                        e |-> e + Len(rest) + 1]
                  ELSE [m |-> raised, e |-> e + Len(rest)]

\* w / n in doubles, 0 < w <= n
DoubleQuotient(w, n) ==
  IF w = n THEN RoundToDouble(<<1>>, 0, FALSE)
  ELSE LET z == LeadingZeros(w, n)
           q == QuotientDigits(w * (2 ^ z), n, QuotientDigitCount)
       IN RoundToDouble(BitsOfDigits(q.digits),
                        0 - (z + DigitBits * QuotientDigitCount),
                        q.rest # 0)

\* x * c in doubles, c a small positive integer
DoubleTimes(x, c) ==
  RoundToDouble(Normalized(BitsOfDigits(TimesSmall(DigitsOfBits(x.m), c, 0))),
                x.e, FALSE)

\* Math.round of a positive double: the nearest integer, halves go up
MathRound(x) ==
  LET f == 0 - x.e
      padded == Zeros(Max(0, f + 1 - MantissaBits)) \o x.m
      whole == Len(padded) - f
  IN IF f <= 0 THEN ValueOf(x.m \o Zeros(0 - f))
     ELSE ValueOf(SubSeq(padded, 1, whole)) + padded[whole + 1]

\* Math.round((imagesWithoutAlt.length / images.length) * 100)
AltPercentage(p) ==
  IF ImagesWithoutAlt(p) = 0 THEN 0
  ELSE MathRound(DoubleTimes(DoubleQuotient(ImagesWithoutAlt(p), Len(p.images)), 100))

CheckAltText(s, p) ==
  IF ImagesWithoutAlt(p) > 0 /\ Len(p.images) > 0
  THEN LET percentage == AltPercentage(p)
       IN IF percentage > 30
          THEN Penalize(s, 5, "images-without-alt", percentage)
          ELSE s
  ELSE s

CheckSocial(s, p) ==
  IF ~p.social THEN Penalize(s, 5, "no-social-links", 0) ELSE s

\* page.evaluate(...) without await: hasPhone and hasEmail are Promise objects
PageEvaluateNotAwaited(value) == [promise |-> TRUE, value |-> value]
\* JavaScript truthiness of an object (a Promise): always true
TruthyObject(o) == o.promise \/ o.value

CheckContact(s, p) ==
  LET hasPhone == PageEvaluateNotAwaited(p.phoneInText)
      hasEmail == PageEvaluateNotAwaited(p.emailInText)
      hasContactForm == p.hasForm
  IN IF ~TruthyObject(hasPhone) /\ ~TruthyObject(hasEmail) /\ ~hasContactForm
     THEN Penalize(s, 10, "no-contact", 0)
     ELSE s

\* copyrightText non-empty, years matched, Math.max(...copyrightYear) < currentYear - 1
CheckCopyright(s, p) ==
  IF p.footerYears # {} /\ SetMax(p.footerYears) < p.currentYear - 1
  THEN Penalize(s, 5, "outdated-copyright", SetMax(p.footerYears))
  ELSE s

\* The in-page loop over document.querySelectorAll('img'), one image
IsBroken(img) ==
  IF img.src = "none" THEN TRUE
  ELSE IF img.src \in {"svg", "data"} THEN FALSE
  ELSE IF img.tiny THEN FALSE
  ELSE IF ~img.complete THEN TRUE
  ELSE IF ~img.natural THEN ~img.retestOk
  ELSE FALSE

BrokenImages(p) == Cardinality({i \in 1..Len(p.images) : IsBroken(p.images[i])})

BrokenCap == 15

\* score -= Math.min(15, brokenImages.total * 3)
CheckBrokenImages(s, p) ==
  IF BrokenImages(p) > 0
  THEN [score |-> s.score - Pts(Min(BrokenCap, BrokenImages(p) * 3)),
        issues |-> Append(s.issues, Issue("broken-images", BrokenImages(p)))]
  ELSE s

ProbesStatusLast ==
  <<"mobile", "loadTime", "ssl", "mixed", "responsive", "seo", "alt",
    "social", "contact", "copyright", "broken", "status">>

\* The probes in execution order
Probes == <<"status", "mobile", "loadTime", "ssl", "mixed", "responsive",
            "seo", "alt", "social", "contact", "copyright", "broken">>

ApplyProbe(name, s, p) ==
  CASE name = "status" -> CheckStatus(s, p)
    [] name = "mobile" -> CheckMobile(s, p)
    [] name = "loadTime" -> CheckLoadTime(s, p)
    [] name = "ssl" -> CheckSsl(s, p)
    [] name = "mixed" -> CheckMixedContent(s, p)
    [] name = "responsive" -> CheckResponsive(s, p)
    [] name = "seo" -> CheckSeo(s, p)
    [] name = "alt" -> CheckAltText(s, p)
    [] name = "social" -> CheckSocial(s, p)
    [] name = "contact" -> CheckContact(s, p)
    [] name = "copyright" -> CheckCopyright(s, p)
    [] name = "broken" -> CheckBrokenImages(s, p)

\* score and issues after the first n probes
RECURSIVE RunProbes(_, _)
RunProbes(n, p) ==
  IF n = 0 THEN [score |-> Pts(100), issues |-> <<>>]
  ELSE ApplyProbe(Probes[n], RunProbes(n - 1, p), p)

\* Probes that start with an awaited browser call, which may reject
AwaitingProbes == {"mobile", "loadTime", "mixed", "responsive", "seo", "broken"}

ProbeIndex(name) == CHOOSE i \in 1..Len(Probes) : Probes[i] = name

\* Probes completed before the awaited call named throwAt rejects
ProbesBefore(throwAt) ==
  IF throwAt = "none" THEN Len(Probes)
  ELSE IF throwAt = "newPage" THEN 0
  ELSE ProbeIndex(throwAt) - 1

Returned(score, issues, path, probesRun, browser) ==
  [outcome |-> "returned", score |-> score, issues |-> issues, path |-> path,
   probesRun |-> probesRun, browser |-> browser]

Rejected(path, probesRun, browser) ==
  [outcome |-> "rejected", score |-> 0, issues |-> <<>>, path |-> path,
   probesRun |-> probesRun, browser |-> browser]

CatchErrorSilent(s) ==
  [score |-> Max(0, s.score - Pts(30)), issues |-> s.issues]

\* catch (error): issues.push(...); score = Math.max(0, score - 30)
CatchError(s) ==
  [score |-> Max(0, s.score - Pts(30)),
   issues |-> Append(s.issues, Issue("evaluation-error", 0))]

\* finally { await browser.close() } as close call number n, then the final return
FinallyClose(s, in, n, path, probesRun, closedBefore) ==
  IF n \in in.closeRejects
  THEN Rejected(path, probesRun, IF closedBefore THEN "closed" ELSE "open")
  ELSE Returned(Max(0, s.score), s.issues, path, probesRun, "closed")

\* page.goto(...).catch(err => { issues.push(...); score = 10; return null })
AfterGoto(s, in) ==
  IF in.nav = "reject-ssl"
  THEN [score |-> Pts(10), issues |-> Append(s.issues, Issue("inaccessible-ssl", 0))]
  ELSE IF in.nav = "reject-other"
       THEN [score |-> Pts(10), issues |-> Append(s.issues, Issue("inaccessible-server", 0))]
       ELSE s

evaluateWebsite(in) ==
  IF in.url = NoUrl
  THEN Returned(0, <<Issue("no-url", 0)>>, "no-url", 0, "none")
  ELSE IF in.launch = "fail"
  THEN Rejected("launch", 0, "none")
  ELSE
    LET s0 == RunProbes(0, in.page)
    IN IF in.throwAt = "newPage"
       THEN FinallyClose(CatchError(s0), in, 1, "caught", 0, FALSE)
       ELSE IF in.nav # "response"
       THEN \* if (!response) { await browser.close(); return ... }
            IF 1 \in in.closeRejects
            THEN FinallyClose(CatchError(AfterGoto(s0, in)), in, 2, "caught", 0, FALSE)
            ELSE FinallyClose(AfterGoto(s0, in), in, 2, "unreachable", 0, TRUE)
       ELSE IF in.throwAt # "none"
       THEN FinallyClose(CatchError(RunProbes(ProbesBefore(in.throwAt), in.page)),
                         in, 1, "caught", ProbesBefore(in.throwAt), FALSE)
       ELSE LET s == RunProbes(Len(Probes), in.page)
                final == [score |-> Max(0, s.score), issues |-> s.issues]
            IN FinallyClose(final, in, 1,
                            IF in.page.status >= 400 THEN "reachable-error"
                            ELSE "reachable", Len(Probes), FALSE)

-----------------------------------------------------------------------------
(* evaluateWebsite: src/website-evaluator.js, first definition (9-206),    *)
(* the one src/main.js requires. Its mobile, load time, responsive, alt    *)
(* text, social, contact and copyright checks read as those above.         *)

\* status >= 400: score -= 30
FirstCheckStatus(s, p) ==
  IF p.status >= 400 THEN Penalize(s, 30, "http-error", p.status) ELSE s

\* const isSecure = url.startsWith('https://')
FirstCheckSsl(s, url) ==
  IF url.scheme # "https://" THEN Penalize(s, 15, "no-ssl", 0) ELSE s

\* !title || title.length < 10 || title.length > 60
FirstCheckTitle(s, p) ==
  IF p.titleLen = 0 \/ p.titleLen < 10 \/ p.titleLen > 60
  THEN Penalize(s, 5, "title", 0) ELSE s

\* !metaDescription || metaDescription.length < 50 || metaDescription.length > 160
FirstCheckMeta(s, p) ==
  IF p.metaLen = 0 \/ p.metaLen < 50 \/ p.metaLen > 160
  THEN Penalize(s, 5, "meta-description", 0) ELSE s

FirstCheckHeadings(s, p) ==
  IF p.h1Count = 0 THEN Penalize(s, 5, "no-h1", 0)
  ELSE IF p.h1Count > 1 THEN Penalize(s, 3, "multiple-h1", 0)
  ELSE s

\* images.filter(img => !img.complete || !img.naturalWidth).length
FirstBrokenImages(p) ==
  Cardinality({i \in 1..Len(p.images) :
                 ~p.images[i].complete \/ ~p.images[i].natural})

\* brokenImages > 0: score -= 5
FirstCheckBrokenImages(s, p) ==
  IF FirstBrokenImages(p) > 0
  THEN Penalize(s, 5, "broken-images", FirstBrokenImages(p))
  ELSE s

\* The probes in execution order
FirstProbes == <<"status", "mobile", "loadTime", "ssl", "responsive", "title",
                 "meta", "headings", "alt", "social", "contact", "copyright",
                 "broken">>

FirstApplyProbe(name, s, p, url) ==
  CASE name = "status" -> FirstCheckStatus(s, p)
    [] name = "mobile" -> CheckMobile(s, p)
    [] name = "loadTime" -> CheckLoadTime(s, p)
    [] name = "ssl" -> FirstCheckSsl(s, url)
    [] name = "responsive" -> CheckResponsive(s, p)
    [] name = "title" -> FirstCheckTitle(s, p)
    [] name = "meta" -> FirstCheckMeta(s, p)
    [] name = "headings" -> FirstCheckHeadings(s, p)
    [] name = "alt" -> CheckAltText(s, p)
    [] name = "social" -> CheckSocial(s, p)
    [] name = "contact" -> CheckContact(s, p)
    [] name = "copyright" -> CheckCopyright(s, p)
    [] name = "broken" -> FirstCheckBrokenImages(s, p)

\* score and issues after the first n probes
RECURSIVE FirstRunProbes(_, _, _)
FirstRunProbes(n, p, url) ==
  IF n = 0 THEN [score |-> Pts(100), issues |-> <<>>]
  ELSE FirstApplyProbe(FirstProbes[n], FirstRunProbes(n - 1, p, url), p, url)

\* Probes that start with an awaited browser call, which may reject ("title":
\* the viewport is restored and page.content() read before the title check)
FirstAwaitingProbes == {"mobile", "loadTime", "responsive", "title", "broken"}

\* Probes completed before the awaited call named throwAt rejects
FirstProbesBefore(throwAt) ==
  IF throwAt = "none" THEN Len(FirstProbes)
  ELSE IF throwAt = "newPage" THEN 0
  ELSE (CHOOSE i \in 1..Len(FirstProbes) : FirstProbes[i] = throwAt) - 1

\* page.goto(...).catch(err => { issues.push(...); score -= 30; return null })
FirstAfterGoto(s, in) ==
  IF in.nav \in {"reject-ssl", "reject-other"}
  THEN Penalize(s, 30, "load-failed", 0)
  ELSE s

evaluateWebsiteFirst(in) ==
  IF in.url = NoUrl
  THEN Returned(0, <<Issue("no-url", 0)>>, "no-url", 0, "none")
  ELSE IF in.launch = "fail"
  THEN Rejected("launch", 0, "none")
  ELSE
    LET url == NormalizeUrl(in.url)
        s0 == FirstRunProbes(0, in.page, url)
    IN IF in.throwAt = "newPage"
       THEN FinallyClose(CatchError(s0), in, 1, "caught", 0, FALSE)
       ELSE IF in.nav # "response"
       THEN \* if (!response) { await browser.close(); return ... }
            IF 1 \in in.closeRejects
            THEN FinallyClose(CatchError(FirstAfterGoto(s0, in)), in, 2, "caught", 0, FALSE)
            ELSE FinallyClose(FirstAfterGoto(s0, in), in, 2, "unreachable", 0, TRUE)
       ELSE IF in.throwAt # "none"
       THEN FinallyClose(CatchError(FirstRunProbes(FirstProbesBefore(in.throwAt),
                                                   in.page, url)),
                         in, 1, "caught", FirstProbesBefore(in.throwAt), FALSE)
       ELSE LET s == FirstRunProbes(Len(FirstProbes), in.page, url)
                final == [score |-> Max(0, s.score), issues |-> s.issues]
            IN FinallyClose(final, in, 1,
                            IF in.page.status >= 400 THEN "reachable-error"
                            ELSE "reachable", Len(FirstProbes), FALSE)

-----------------------------------------------------------------------------
(* Inputs of evaluateWebsite: the url argument, the browser's faults and   *)
(* the page that loads.                                                    *)

\* Most <img> elements of one page
MaxImages == 6
\* Year read by new Date().getFullYear()
CurrentYear == 2026

Days(n) == n * SecondsPerDay

\* A page on which no probe finds anything
GoodPage ==
  [status |-> 200, mediaNarrow |-> FALSE, viewport |-> "present",
   loadTime |-> 1200, secure |-> TRUE, finalHttps |-> TRUE,
   validTo |-> Days(90), nowTicks |-> 0, mixed |-> FALSE, responsive |-> TRUE,
   titleLen |-> 40, metaLen |-> 100, h1Count |-> 1, h2Count |-> 1,
   canonical |-> TRUE, robots |-> "index", structuredData |-> TRUE,
   og |-> {"title", "description", "image"}, images |-> <<>>,
   social |-> TRUE, phoneInText |-> TRUE, emailInText |-> FALSE,
   hasForm |-> FALSE, footerYears |-> {}, currentYear |-> CurrentYear]

GoodImage ==
  [alt |-> TRUE, src |-> "url", tiny |-> FALSE, complete |-> TRUE,
   natural |-> TRUE, retestOk |-> FALSE]

ImageKinds ==
  { GoodImage,
    [GoodImage EXCEPT !.alt = FALSE],
    [GoodImage EXCEPT !.src = "none"],
    [GoodImage EXCEPT !.src = "svg", !.natural = FALSE],
    [GoodImage EXCEPT !.src = "data", !.complete = FALSE],
    [GoodImage EXCEPT !.tiny = TRUE, !.natural = FALSE, !.alt = FALSE],
    [GoodImage EXCEPT !.complete = FALSE, !.alt = FALSE],
    [GoodImage EXCEPT !.natural = FALSE],
    [GoodImage EXCEPT !.natural = FALSE, !.retestOk = TRUE] }

\* n copies of one image
Repeat(img, n) == [i \in 1..n |-> img]

ImageLists ==
  {<<>>} \cup {<<a>> : a \in ImageKinds}
         \cup {<<a, b>> : a \in ImageKinds, b \in ImageKinds}
         \cup {Repeat(a, nm[1]) \o Repeat(GoodImage, nm[2]) :
                 a \in {[GoodImage EXCEPT !.src = "none"],
                        [GoodImage EXCEPT !.complete = FALSE, !.alt = FALSE]},
                 nm \in {x \in (0..MaxImages) \X (0..MaxImages) :
                           x[1] + x[2] <= MaxImages}}

\* Certificates: absent, served over http after redirects, and expiry dates
\* around the thresholds, read at a whole second and between two seconds
CertCases ==
  {[secure |-> FALSE, finalHttps |-> TRUE, validTo |-> 0, nowTicks |-> 0],
   [secure |-> TRUE, finalHttps |-> FALSE, validTo |-> Days(90), nowTicks |-> 0]}
  \cup
  {[secure |-> TRUE, finalHttps |-> TRUE, validTo |-> v, nowTicks |-> t] :
     v \in {Days(-10) - (SecondsPerDay \div 2), Days(-10), Days(-1), -1, 0, 1,
            Days(1), Days(30) - 1, Days(30), Days(90)},
     t \in 0..(TicksPerSecond - 1)}

WithCert(p, c) ==
  [p EXCEPT !.secure = c.secure, !.finalHttps = c.finalHttps,
            !.validTo = c.validTo, !.nowTicks = c.nowTicks]

\* A page on which every SEO check and content probe finds something
PoorPage ==
  [GoodPage EXCEPT !.viewport = "absent", !.loadTime = 3001, !.secure = FALSE,
                   !.mixed = TRUE, !.responsive = FALSE, !.titleLen = 0,
                   !.metaLen = 0, !.h1Count = 0, !.h2Count = 0,
                   !.canonical = FALSE, !.robots = "noindex",
                   !.structuredData = FALSE, !.og = {},
                   !.images = Repeat([GoodImage EXCEPT !.src = "none", !.alt = FALSE], MaxImages),
                   !.social = FALSE, !.phoneInText = FALSE,
                   !.footerYears = {CurrentYear - 3, CurrentYear - 2}]

\* SEO states of a page used where the other probes vary
SeoProfiles ==
  { GoodPage,
    [GoodPage EXCEPT !.canonical = FALSE],
    PoorPage }

WithSeo(p, q) ==
  [p EXCEPT !.titleLen = q.titleLen, !.metaLen = q.metaLen,
            !.h1Count = q.h1Count, !.h2Count = q.h2Count,
            !.canonical = q.canonical, !.robots = q.robots,
            !.structuredData = q.structuredData, !.og = q.og]

\* Every combination of the probes other than SEO
ProbePages ==
  { WithSeo(WithCert(
      [GoodPage EXCEPT !.status = st, !.viewport = vp, !.loadTime = lt,
                       !.mixed = mx, !.responsive = rs, !.images = im,
                       !.social = so, !.phoneInText = ct, !.hasForm = ct,
                       !.footerYears = fy], c), q) :
      st \in {200, 404}, vp \in {"absent", "present"}, lt \in {3000, 3001},
      mx \in BOOLEAN, rs \in BOOLEAN,
      im \in {<<>>, <<[GoodImage EXCEPT !.alt = FALSE, !.complete = FALSE]>>,
              Repeat([GoodImage EXCEPT !.src = "none"], MaxImages)},
      so \in BOOLEAN, ct \in BOOLEAN,
      fy \in {{CurrentYear - 1}, {CurrentYear - 2}},
      c \in {[secure |-> FALSE, finalHttps |-> TRUE, validTo |-> 0, nowTicks |-> 0],
             [secure |-> TRUE, finalHttps |-> TRUE, validTo |-> Days(90), nowTicks |-> 0],
             [secure |-> TRUE, finalHttps |-> TRUE, validTo |-> Days(10), nowTicks |-> 0],
             [secure |-> TRUE, finalHttps |-> TRUE, validTo |-> Days(-10), nowTicks |-> 0]},
      q \in SeoProfiles }

\* Every combination of the SEO checks
SeoPages ==
  { [GoodPage EXCEPT !.titleLen = tl, !.metaLen = ml, !.h1Count = h1,
                     !.h2Count = h2, !.canonical = cn, !.robots = rb,
                     !.structuredData = sd, !.og = og, !.viewport = vp] :
      tl \in {0, 9, 10, 60, 61}, ml \in {0, 49, 50, 160, 161},
      h1 \in 0..2, h2 \in 0..1, cn \in BOOLEAN,
      rb \in {"absent", "index", "noindex", "nofollow"}, sd \in BOOLEAN,
      og \in {{}, {"title", "image"}, {"title", "description", "image"}},
      vp \in {"absent", "empty", "present"} }

CertPages ==
  { WithCert([GoodPage EXCEPT !.status = st], c) :
      st \in {200, 404}, c \in CertCases }

ImagePages ==
  { [GoodPage EXCEPT !.images = im, !.status = st] :
      im \in ImageLists, st \in {200, 404} }

ContactPages ==
  { [GoodPage EXCEPT !.phoneInText = ph, !.emailInText = em, !.hasForm = fm,
                     !.footerYears = fy, !.mediaNarrow = mn, !.viewport = vp] :
      ph \in BOOLEAN, em \in BOOLEAN, fm \in BOOLEAN,
      fy \in SUBSET {CurrentYear - 2, CurrentYear - 1, CurrentYear},
      mn \in BOOLEAN, vp \in {"absent", "present"} }

\* The page of the 100-point scenario, with the checks it leaves open varied
ScenarioPages ==
  { [GoodPage EXCEPT !.canonical = cn, !.robots = rb, !.structuredData = sd,
                     !.og = og, !.h2Count = h2, !.emailInText = em,
                     !.validTo = vt, !.viewport = vp] :
      cn \in BOOLEAN, rb \in {"absent", "index", "noindex", "nofollow"},
      sd \in BOOLEAN,
      og \in {{}, {"title", "image"}, {"title", "description", "image"}},
      h2 \in 1..2, em \in BOOLEAN,
      vt \in {0, Days(30) - 1, Days(30), Days(90)},
      vp \in {"empty", "present"} }

Urls ==
  {NoUrl, Url("", "example.com"), Url("http://", "example.com"),
   Url("https://", "example.com")}

NoFault(url, page) ==
  [url |-> url, launch |-> "ok", nav |-> "response", throwAt |-> "none",
   closeRejects |-> {}, page |-> page]

\* Calls in which the browser works
HealthyInputs ==
  { NoFault(Url("https://", "example.com"), p) :
      p \in ProbePages \cup SeoPages \cup CertPages \cup ImagePages
              \cup ContactPages \cup ScenarioPages }

\* Calls in which a browser operation fails
FaultInputs ==
  [url : Urls, launch : {"ok", "fail"},
   nav : {"response", "null", "reject-ssl", "reject-other"},
   throwAt : {"none", "newPage"} \cup AwaitingProbes,
   closeRejects : SUBSET {1, 2},
   page : {GoodPage, [GoodPage EXCEPT !.status = 404], PoorPage,
           [PoorPage EXCEPT !.status = 500]}]

EvalInputs == HealthyInputs \cup FaultInputs

NoEvaluation ==
  [outcome |-> "none", score |-> 0, issues |-> <<>>, path |-> "none",
   probesRun |-> 0, browser |-> "none"]

-----------------------------------------------------------------------------
(* The result feed and the detail panel of the page                        *)

\* Most feed entries the page loads in one run
MaxFeed == 2

\* A name is the sequence of its characters
RawNames == { <<"A">>, <<"a", " ">>, <<"B">> }

RECURSIVE TrimStart(_)
TrimStart(n) ==
  IF n # <<>> /\ Head(n) = " " THEN TrimStart(Tail(n)) ELSE n

RECURSIVE TrimEnd(_)
TrimEnd(n) ==
  IF n # <<>> /\ n[Len(n)] = " " THEN TrimEnd(SubSeq(n, 1, Len(n) - 1)) ELSE n

\* String.prototype.trim
Trim(n) == TrimEnd(TrimStart(n))

LowerChar(c) ==
  CASE c = "A" -> "a"
    [] c = "B" -> "b"
    [] OTHER -> c

\* String.prototype.toLowerCase
ToLowerCase(n) == [i \in 1..Len(n) |-> LowerChar(n[i])]

\* Web sites the entries link to; site 0 is "no website link in the panel"
SiteUrl(site) ==
  IF site = 1 THEN Url("https://", "one.example")
  ELSE Url("https://", "two.example")

\* A feed entry: the text of its .qBF1Pd element and the site its panel links to
Entries == [name : RawNames, site : 0..2]

\* What evaluateWebsite meets when a discovery run calls it: a page that
\* scores 100, one that scores exactly `exact`, an unreachable site, and a
\* browser that does not launch
SiteStates(exact) ==
  { [launch |-> "ok", nav |-> "response", page |-> GoodPage],
    [launch |-> "ok", nav |-> "response",
     page |-> IF exact = 70
              THEN [GoodPage EXCEPT !.responsive = FALSE, !.secure = FALSE]
              ELSE [GoodPage EXCEPT !.responsive = FALSE, !.secure = FALSE,
                                    !.loadTime = 3001]],
    [launch |-> "ok", nav |-> "reject-other", page |-> GoodPage],
    [launch |-> "fail", nav |-> "response", page |-> GoodPage] }

\* What the evaluateWebsite of src/main.js meets: a page that scores 100, one
\* that scores exactly 60 (no viewport tag, wider than the phone viewport,
\* slow), an unreachable site, and a browser that does not launch
MainSiteStates ==
  { [launch |-> "ok", nav |-> "response", page |-> GoodPage],
    [launch |-> "ok", nav |-> "response",
     page |-> [GoodPage EXCEPT !.viewport = "absent", !.responsive = FALSE,
                               !.loadTime = 3001]],
    [launch |-> "ok", nav |-> "reject-other", page |-> GoodPage],
    [launch |-> "fail", nav |-> "response", page |-> GoodPage] }

SiteInput(url, st) ==
  [url |-> url, launch |-> st.launch, nav |-> st.nav, throwAt |-> "none",
   closeRejects |-> {}, page |-> st.page]

-----------------------------------------------------------------------------
(* WebsiteAnalyzer: src/website-analyzer.js                                *)

QUALITY_THRESHOLD == 70
BATCH_SIZE == 20
maxNoNewResultsScrolls == 5

\* Operations on one entry of the sweep that may fail. "scan": hasPhone or
\* hasEmail, the page.evaluate calls evaluateWebsite starts without await,
\* rejects; "screenshot": a step of captureScreenshot fails
AnalyzerEntryFaults ==
  {"query", "nameEval", "click", "extract", "evaluate", "scan", "screenshot",
   "csv", "report", "escape"}

\* The steps of captureScreenshot that may fail: browser.newPage (94),
\* page.setViewport (95), page.screenshot (116), page.close (108, 125)
ShotFaultEvents == {"shotNewPage", "shotViewport", "shotCapture", "shotClose"}

\* What the browser does to one entry: nothing wrong, the entry has no
\* .qBF1Pd element, or one operation fails (evaluateWebsite fails by its own input)
AnalyzerEntryEvents ==
  {"none", "noNameElement"}
    \cup (AnalyzerEntryFaults \ {"evaluate", "screenshot"})
    \cup ShotFaultEvents

\* What the process does with a rejected promise that nothing handles: it
\* prints a warning and goes on, or it raises the rejection as an uncaught
\* exception and exits (the default of Node.js from version 15 on)
UnhandledRejectionModes == {"warn", "throw"}

\* The call of evaluateWebsite got as far as the contact check, where the two
\* text scans are started
ScansStarted(result, probes) ==
  result.probesRun >= (CHOOSE i \in 1..Len(probes) : probes[i] = "contact")

\* extractBusinessDetails: the fields read from the open detail panel
extractBusinessDetails(pnl) ==
  IF pnl = <<>>
  THEN [name |-> <<>>, websiteUrl |-> NoUrl]
  ELSE [name |-> Trim(pnl[1].name),
        websiteUrl |-> IF pnl[1].site = 0 THEN NoUrl ELSE SiteUrl(pnl[1].site)]

\* What the browser does during one call of captureScreenshot: newPage and
\* setViewport resolve or reject, goto resolves with a response, resolves
\* with null or rejects, page.screenshot and page.close resolve or reject
ShotInputs ==
  [newPage : {"ok", "fail"}, viewport : {"ok", "fail"},
   nav : {"response", "null", "reject"}, shot : {"ok", "fail"},
   close : {"ok", "fail"}]

ShotResult(image, page) == [image |-> image, page |-> page]

\* captureScreenshot: image is TRUE when a screenshot is returned and FALSE
\* when null is; page is what became of the page the call opened ("none":
\* newPage rejected). The method has a catch and no finally
captureScreenshot(in) ==
  IF in.newPage = "fail" THEN ShotResult(FALSE, "none")
  ELSE IF in.viewport = "fail" THEN ShotResult(FALSE, "open")
  ELSE IF in.nav # "response"
       THEN IF in.close = "fail" THEN ShotResult(FALSE, "open")
            ELSE ShotResult(FALSE, "closed")
  ELSE IF in.close = "fail" THEN ShotResult(FALSE, "open")
  ELSE ShotResult(in.shot = "ok", "closed")

\* The browser of a discovery run towards captureScreenshot: the step named
\* by ev fails, and the site loads or does not as it did for evaluateWebsite
SiteShot(st, ev) ==
  [newPage |-> IF ev = "shotNewPage" THEN "fail" ELSE "ok",
   viewport |-> IF ev = "shotViewport" THEN "fail" ELSE "ok",
   nav |-> IF st.nav = "response" THEN "response" ELSE "reject",
   shot |-> IF ev = "shotCapture" THEN "fail" ELSE "ok",
   close |-> IF ev = "shotClose" THEN "fail" ELSE "ok"]

Business(details, ev, shot) ==
  [name |-> details.name, websiteUrl |-> details.websiteUrl,
   websiteScore |-> ev.score, issues |-> ev.issues, screenshot |-> shot,
   reportPath |-> FALSE, reportGenerated |-> FALSE]

\* Indexes of lowScoringBusinesses still without a report, in list order
Unreported(all, low) ==
  SelectSeq(low, LAMBDA i : ~all[i].reportGenerated)

\* generateReportsForLowScoring: generateReport for each unreported business
\* in order; the failAt-th of them rejects (0: none), in the report generator
\* ("render") or in the CSV update that follows it ("csv")
generateReportsForLowScoring(all, low, failAt, stage) ==
  LET todo == Unreported(all, low)
      done == IF failAt = 0 \/ failAt > Len(todo) THEN Len(todo) ELSE failAt - 1
      failed == failAt # 0 /\ failAt <= Len(todo)
  IN [all |-> [i \in 1..Len(all) |->
                 IF \E k \in 1..done : todo[k] = i
                 THEN [all[i] EXCEPT !.reportPath = TRUE, !.reportGenerated = TRUE]
                 ELSE IF failed /\ todo[failAt] = i /\ stage = "csv"
                      THEN [all[i] EXCEPT !.reportPath = TRUE]
                      ELSE all[i]],
      rejected |-> failed]

\* Sites the entries of a list link to
SitesIn(lst) == {lst[i].site : i \in 1..Len(lst)}

\* Entries the feed may load after it has loaded `seen`: names and sites are
\* interchangeable, so the first entry is named "A" and site 2 appears only
\* after site 1
NewEntries(seen) ==
  {e \in Entries : /\ seen = <<>> => e.name = <<"A">>
                   /\ e.site = 2 => 1 \in SitesIn(seen)}

\* Every feed of n entries
RECURSIVE FeedsOfLen(_)
FeedsOfLen(n) ==
  IF n = 0 THEN {<<>>}
  ELSE UNION {{Append(f, e) : e \in NewEntries(f)} : f \in FeedsOfLen(n - 1)}

\* The entries loaded so far, after the list went from lst to grown
Loaded(seen, lst, grown) ==
  IF Len(grown) > Len(lst) THEN Append(seen, grown[Len(grown)]) ELSE seen

\* The page after a scroll: the feed loads nothing more or one more entry
Grown(lst, seen) ==
  {lst} \cup (IF Len(seen) < MaxFeed THEN {Append(lst, e) : e \in NewEntries(seen)} ELSE {})

\* One more completed sweep: it added a new name or it did not
QuietSweepsAfter(found, quiet) ==
  IF found THEN 0 ELSE Min(quiet + 1, maxNoNewResultsScrolls)

\* while (noNewResultsScrolls < maxNoNewResultsScrolls)
AnalyzerLoopCondition == noNewResultsScrolls < maxNoNewResultsScrolls

CountScrollInverted(found, n) == IF found THEN n + 1 ELSE 0

\* if (!foundNewBusiness) noNewResultsScrolls++; else noNewResultsScrolls = 0
CountScroll(found, n) == IF ~found THEN n + 1 ELSE 0

\* Where scrapeResults goes on after the body of the for loop: every failure
\* of an awaited operation is caught inside the body; a rejection nothing
\* handles ends the process when it is raised as an uncaught exception
AnalyzerAfterEntry(failed, mode) ==
  IF "scan" \in failed /\ mode = "throw" THEN "crashed" ELSE "entries"

\* catch (scrollError) and the catch of the while body: the failure is logged
\* and counted, and the while loop goes on
AnalyzerAfterFeedFailure == "loop"

\* The while condition is false
AnalyzerLoopExit ==
  /\ apc = "loop"
  /\ ~AnalyzerLoopCondition
  /\ UNCHANGED <<evalVars, mainVars>>
  /\ apc' = "flush"
  /\ faults' = {}
  /\ UNCHANGED <<listing, loaded, panel, clicks, evaluated, historyVars>>
  /\ UNCHANGED <<processedBusinesses, allBusinesses, lowScoringBusinesses,
                 noNewResultsScrolls, foundNewBusiness, businessElements, ai>>

\* const businessElements = await this.page.$$('.Nv2PK'); let foundNewBusiness = false
AnalyzerSnapshot ==
  /\ apc = "loop"
  /\ AnalyzerLoopCondition
  /\ UNCHANGED <<evalVars, mainVars>>
  /\ businessElements' = listing
  /\ foundNewBusiness' = FALSE
  /\ newNameInSweep' = FALSE
  /\ ai' = 1
  /\ apc' = "entries"
  /\ faults' = {}
  /\ UNCHANGED <<listing, loaded, panel, clicks, evaluated, quietSweeps>>
  /\ UNCHANGED <<processedBusinesses, allBusinesses, lowScoringBusinesses,
                 noNewResultsScrolls>>

\* page.$$ rejects: catch (error) { noNewResultsScrolls++ }
AnalyzerSnapshotFails ==
  /\ apc = "loop"
  /\ AnalyzerLoopCondition
  /\ UNCHANGED <<evalVars, mainVars>>
  /\ noNewResultsScrolls' = noNewResultsScrolls + 1
  /\ quietSweeps' = QuietSweepsAfter(FALSE, quietSweeps)
  /\ newNameInSweep' = FALSE
  /\ faults' = {"snapshot"}
  /\ UNCHANGED <<listing, loaded, panel, clicks, evaluated>>
  /\ UNCHANGED <<processedBusinesses, allBusinesses, lowScoringBusinesses,
                 foundNewBusiness, businessElements, ai, apc>>

\* The body of for (const element of businessElements) for one element.
\* ev: what the browser does to the entry; st: the site's state when it is
\* evaluated (captureScreenshot returns an image when the site loads and no
\* step of it fails); failAt and stage: with ev = "report", the report of
\* the batch that rejects and where, in the report generator ("render") or in
\* the CSV update ("csv"); mode: with ev = "scan", what the process does with
\* the rejection of the text scan, which no handler receives
AnalyzerEntry(ev, st, failAt, stage, mode) ==
  /\ apc = "entries"
  /\ ai <= Len(businessElements)
  /\ ev # "report" => (failAt = 0 /\ stage = "render")
  /\ ev = "report" => Len(allBusinesses) + 1 >= BATCH_SIZE
  /\ ev # "scan" => mode = "warn"
  /\ UNCHANGED <<evalVars, mainVars>>
  /\ LET e == businessElements[ai]
         name == ToLowerCase(Trim(e.name))
         skipped == \/ ev \in {"query", "noNameElement", "nameEval"}
                    \/ name = <<>>
                    \/ name \in processedBusinesses
         shown == IF ev = "click" THEN panel ELSE <<e>>
         details == extractBusinessDetails(shown)
         hasSite == ev # "extract" /\ details.websiteUrl # NoUrl
         crashed == ev = "scan" /\ mode = "throw"
     IN /\ ai' = IF crashed THEN ai ELSE ai + 1
        /\ UNCHANGED <<listing, loaded, noNewResultsScrolls, businessElements,
                       quietSweeps>>
        /\ IF skipped
           THEN /\ ev \in {"none", "query", "noNameElement", "nameEval"}
                /\ faults' = {ev} \cap AnalyzerEntryFaults
                /\ UNCHANGED <<panel, clicks, evaluated, processedBusinesses,
                               allBusinesses, lowScoringBusinesses,
                               foundNewBusiness, newNameInSweep>>
           ELSE /\ processedBusinesses' = processedBusinesses \cup {name}
                /\ foundNewBusiness' = TRUE
                /\ newNameInSweep' = TRUE
                /\ clicks' = clicks + 1
                /\ panel' = IF ev = "escape" \/ crashed THEN shown ELSE <<>>
                /\ IF ~hasSite
                   THEN \* if (details.websiteUrl) is not entered
                        /\ ev \notin {"scan", "csv", "report"} \cup ShotFaultEvents
                        /\ faults' = {ev} \cap AnalyzerEntryFaults
                        /\ UNCHANGED <<evaluated, allBusinesses, lowScoringBusinesses>>
                   ELSE \* const evaluation = await this.websiteEvaluator.evaluateWebsite(...)
                        \E result \in {evaluateWebsite(SiteInput(details.websiteUrl, st))} :
                          LET scored == result.outcome = "returned"
                              business == Business(details, result,
                                            captureScreenshot(SiteShot(st, ev)).image)
                              pushed == Append(allBusinesses, business)
                              isLow == /\ scored /\ ev # "csv"
                                       /\ business.websiteScore <= Pts(QUALITY_THRESHOLD)
                              low == IF isLow
                                     THEN Append(lowScoringBusinesses, Len(pushed))
                                     ELSE lowScoringBusinesses
                              batch == scored /\ ev # "csv" /\ Len(pushed) >= BATCH_SIZE
                              reports == generateReportsForLowScoring(
                                           pushed, low, failAt, stage)
                          IN /\ ev = "scan" => ScansStarted(result, Probes)
                             /\ ev \in ShotFaultEvents => scored
                             \* page.screenshot is called when the site has loaded
                             /\ ev = "shotCapture" => SiteShot(st, ev).nav = "response"
                             /\ ev = "csv" => scored
                             /\ ev = "report" => (batch /\ reports.rejected)
                             /\ evaluated' = Append(evaluated, details.websiteUrl)
                             /\ allBusinesses' =
                                  IF ~scored \/ crashed THEN allBusinesses
                                  ELSE IF batch THEN reports.all ELSE pushed
                             /\ lowScoringBusinesses' =
                                  IF crashed THEN lowScoringBusinesses ELSE low
                             /\ faults' =
                                  ({ev} \cap AnalyzerEntryFaults)
                                    \cup (IF ev \in ShotFaultEvents THEN {"screenshot"}
                                          ELSE {})
                                    \cup (IF ~scored THEN {"evaluate"} ELSE {})
        /\ apc' = AnalyzerAfterEntry(faults', mode)

\* The scroll logic after the for loop. container: what page.$('div[role="feed"]')
\* does ("present", "missing", or "queryFails" when it rejects)
AnalyzerScroll(container) ==
  /\ apc = "entries"
  /\ ai > Len(businessElements)
  /\ UNCHANGED <<evalVars, mainVars>>
  /\ UNCHANGED <<panel, clicks, evaluated>>
  /\ UNCHANGED <<processedBusinesses, allBusinesses, lowScoringBusinesses,
                 foundNewBusiness, businessElements, ai>>
  /\ UNCHANGED newNameInSweep
  /\ CASE container = "missing" ->
            /\ apc' = "flush"
            /\ faults' = {}
            /\ UNCHANGED <<listing, loaded, noNewResultsScrolls, quietSweeps>>
       [] container = "queryFails" ->
            /\ apc' = AnalyzerAfterFeedFailure
            /\ noNewResultsScrolls' = noNewResultsScrolls + 1
            /\ quietSweeps' = QuietSweepsAfter(newNameInSweep, quietSweeps)
            /\ faults' = {"scroll"}
            /\ UNCHANGED <<listing, loaded>>
       [] container = "present" ->
            /\ apc' = "loop"
            /\ listing' \in Grown(listing, loaded)
            /\ loaded' = Loaded(loaded, listing, listing')
            /\ noNewResultsScrolls' = CountScroll(foundNewBusiness, noNewResultsScrolls)
            /\ quietSweeps' = QuietSweepsAfter(newNameInSweep, quietSweeps)
            /\ faults' = {}

\* Generate any remaining reports at the end; return this.allBusinesses
AnalyzerFlush(failAt, stage) ==
  /\ apc = "flush"
  /\ UNCHANGED <<evalVars, mainVars>>
  /\ LET reports == generateReportsForLowScoring(
                      allBusinesses, lowScoringBusinesses, failAt, stage)
     IN /\ failAt # 0 => reports.rejected
        /\ allBusinesses' = IF Len(lowScoringBusinesses) > 0 THEN reports.all
                            ELSE allBusinesses
        /\ faults' = IF reports.rejected THEN {"finalReports"} ELSE {}
  /\ apc' = "done"
  /\ UNCHANGED <<listing, loaded, panel, clicks, evaluated, historyVars>>
  /\ UNCHANGED <<processedBusinesses, lowScoringBusinesses, noNewResultsScrolls,
                 foundNewBusiness, businessElements, ai>>

-----------------------------------------------------------------------------
(* scrapeBusinesses: src/main.js                                           *)

\* const QUALITY_THRESHOLD = 60 of main.js, the default of qualityThreshold
MAIN_QUALITY_THRESHOLD == 60
\* Largest maxBusinesses a run is started with
MaxWanted == 2

\* Operations on one entry of the sweep that may fail
MainEntryFaults ==
  {"query", "nameEval", "click", "detail", "evaluate", "scan", "escape"}

\* "scan": the scan rejects while evaluateWebsite is at work; "scanAtClose":
\* it is still pending when evaluateWebsite closes its browser and rejects
\* there, so evaluateWebsite returns before the rejection is looked at
MainEntryEvents ==
  {"none", "noNameElement"} \cup (MainEntryFaults \ {"evaluate"})
    \cup {"scanAtClose"}

\* The record pushed to businesses
Prospect(name, url, ev) ==
  [name |-> name, websiteUrl |-> url, websiteScore |-> ev.score,
   issues |-> ev.issues]

\* The record pushed to businessesWithoutWebsites
NoWebsiteListing(name) == [name |-> name]

\* while (needScrolling && collectedBusinesses < maxBusinesses)
MainLoopCondition == needScrolling /\ collectedBusinesses < maxBusinesses

MainCapIgnored == FALSE

\* if (collectedBusinesses >= maxBusinesses) break, at the head of the for body
MainCapReached == collectedBusinesses >= maxBusinesses

\* Where scrapeBusinesses goes on after the body of the for loop: the body is
\* one try whose catch presses Escape in a try; a rejection nothing handles
\* ends the process when it is raised as an uncaught exception
MainAfterEntry(failed, mode) ==
  IF "scan" \in failed /\ mode = "throw" THEN "crashed" ELSE "entries"

\* The while condition is false: finally { await browser.close() } and the
\* return. close: what browser.close() does; when it rejects, nothing catches
\* it and scrapeBusinesses rejects
MainLoopExit(close) ==
  /\ mpc = "loop"
  /\ ~MainLoopCondition
  /\ UNCHANGED <<evalVars, analyzerVars>>
  /\ mpc' = IF close = "fail" THEN "threw" ELSE "done"
  /\ faults' = IF close = "fail" THEN {"close"} ELSE {}
  /\ UNCHANGED <<listing, loaded, panel, clicks, evaluated, historyVars>>
  /\ UNCHANGED <<maxBusinesses, qualityThreshold, businesses,
                 businessesWithoutWebsites, processedWebsites,
                 processedBusinessNames, collectedBusinesses, needScrolling,
                 mElements, mi>>

\* if (isLoading) { await waitFor(2000); ... }: the indicator is present
MainLoading ==
  /\ mpc = "loop"
  /\ MainLoopCondition
  /\ UNCHANGED <<evalVars, analyzerVars>>
  /\ mpc' = "waiting"
  /\ faults' = {}
  /\ UNCHANGED <<listing, loaded, panel, clicks, evaluated, historyVars>>
  /\ UNCHANGED <<maxBusinesses, qualityThreshold, businesses,
                 businessesWithoutWebsites, processedWebsites,
                 processedBusinessNames, collectedBusinesses, needScrolling,
                 mElements, mi>>

\* ... continue: the two seconds are over, back to the while condition
MainLoadingOver ==
  /\ mpc = "waiting"
  /\ UNCHANGED <<evalVars, analyzerVars>>
  /\ mpc' = "loop"
  /\ UNCHANGED <<pageVars, historyVars>>
  /\ UNCHANGED <<maxBusinesses, qualityThreshold, businesses,
                 businessesWithoutWebsites, processedWebsites,
                 processedBusinessNames, collectedBusinesses, needScrolling,
                 mElements, mi>>

\* const businessElements = await page.$$('.Nv2PK')
MainSnapshot ==
  /\ mpc = "loop"
  /\ MainLoopCondition
  /\ UNCHANGED <<evalVars, analyzerVars>>
  /\ mElements' = listing
  /\ mi' = 1
  /\ mpc' = "entries"
  /\ newNameInSweep' = FALSE
  /\ faults' = {}
  /\ UNCHANGED <<listing, loaded, panel, clicks, evaluated, quietSweeps>>
  /\ UNCHANGED <<maxBusinesses, qualityThreshold, businesses,
                 businessesWithoutWebsites, processedWebsites,
                 processedBusinessNames, collectedBusinesses, needScrolling>>

\* The for loop is over, or left by if (collectedBusinesses >= maxBusinesses) break
MainSweepOver ==
  mpc = "entries" /\ (mi > Len(mElements) \/ MainCapReached)

MainAfterFeedFailureRethrown == "threw"

\* catch (error) { console.error(...) } finally { await browser.close() }, then
\* the return: the failure ends the run without leaving scrapeBusinesses
MainAfterFeedFailure == "done"

\* Awaited page operations of the while loop outside the per-entry try: the
\* loading check (102) and the listing query (112) at its head; after the
\* sweep the query for a scroll container (239, 263), the scroll (241, 265),
\* the bottom check (249, 273), the query for the "Next page" button (291),
\* the read of its disabled property (293) and the click on it (296)
MainFeedOperations ==
  {"loading", "listing", "container", "scroll", "bottom", "button",
   "disabled", "click"}

\* The operation failAt rejects: catch (error) of scrapeBusinesses, finally,
\* return. What ran before it has taken effect: with a scroll container
\* found the list was scrolled before the bottom check, and needScrolling
\* was assigned before the query for the button. close: what browser.close()
\* in the finally does; when it rejects, scrapeBusinesses rejects
MainAbort(failAt, container, endReached, close) ==
  /\ IF failAt \in {"loading", "listing"}
     THEN /\ mpc = "loop"
          /\ MainLoopCondition
          /\ container = "none" /\ ~endReached
          /\ UNCHANGED <<listing, loaded, needScrolling, quietSweeps>>
     ELSE LET scrolled == container # "none" /\ failAt \notin {"container", "scroll"}
              afterScroll == IF container # "none"
                             THEN (needScrolling /\ ~endReached) ELSE FALSE
              assigned == failAt \in {"button", "disabled", "click"}
          IN /\ MainSweepOver
             /\ collectedBusinesses < maxBusinesses
             /\ failAt = "container" => container = "none"
             /\ failAt \in {"scroll", "bottom"} => container # "none"
             /\ ~assigned \/ container = "none" => ~endReached
             /\ failAt \in {"disabled", "click"} => ~afterScroll
             /\ quietSweeps' = QuietSweepsAfter(newNameInSweep, quietSweeps)
             /\ needScrolling' = IF assigned THEN afterScroll ELSE needScrolling
             /\ \E grown \in (IF scrolled THEN Grown(listing, loaded) ELSE {listing}) :
                  /\ listing' = grown
                  /\ loaded' = Loaded(loaded, listing, grown)
  /\ mpc' = IF close = "fail" THEN "threw" ELSE MainAfterFeedFailure
  /\ faults' = {"feed"} \cup (IF close = "fail" THEN {"close"} ELSE {})
  /\ UNCHANGED <<evalVars, analyzerVars>>
  /\ UNCHANGED <<panel, clicks, evaluated, newNameInSweep>>
  /\ UNCHANGED <<maxBusinesses, qualityThreshold, businesses,
                 businessesWithoutWebsites, processedWebsites,
                 processedBusinessNames, collectedBusinesses, mElements, mi>>

\* Outcome of the Escape press in the catch of the per-entry try (230)
MainCatchOutcomes == {"ok", "fail"}

\* The body of for (const element of businessElements) for one element. ev is
\* what fails in the try ("escape": the Escape press that ends it, at 178,
\* 190 or 223; "scan", "scanAtClose": hasPhone or hasEmail of evaluateWebsite
\* rejects), st what evaluateWebsite meets, esc the outcome of the Escape
\* press in the catch ("ok" when the catch is not entered), mode what the
\* process does with the rejection of the text scan, which no handler
\* receives. An unhandled rejection is looked at when no more code is ready
\* to run: one that arrives when evaluateWebsite closes its browser finds
\* lines 201-219 run and the Escape press of line 223 sent
MainEntry(ev, st, esc, mode) ==
  /\ mpc = "entries"
  /\ mi <= Len(mElements)
  /\ ~MainCapReached
  /\ ev \notin {"scan", "scanAtClose"} => mode = "warn"
  /\ UNCHANGED <<evalVars, analyzerVars>>
  /\ LET e == mElements[mi]
         name == e.name
         url == SiteUrl(e.site)
         result == evaluateWebsiteFirst(SiteInput(url, st))
         scanning == ev \in {"scan", "scanAtClose"}
         crashed == scanning /\ mode = "throw"
         \* catch (error) { try { Escape } catch (e) {} } after `failed`
         \* rejected with the panel showing `open`
         Caught(failed, open) ==
           /\ faults' = failed \cup (IF esc = "fail" THEN {"escape"} ELSE {})
           /\ panel' = IF esc = "fail" THEN open ELSE <<>>
         \* await page.keyboard.press('Escape') at the end of the try
         GoBack ==
           IF ev = "escape" THEN Caught({"escape"}, <<e>>)
           ELSE /\ esc = "ok"
                /\ faults' = IF scanning THEN {"scan"} ELSE {}
                /\ panel' = <<>>
     IN /\ mi' = IF crashed THEN mi ELSE mi + 1
        /\ UNCHANGED <<listing, loaded, maxBusinesses, qualityThreshold,
                       needScrolling, mElements, quietSweeps>>
        /\ IF ev = "noNameElement" \/ (ev = "none" /\ name \in processedBusinessNames)
           THEN \* continue
                /\ esc = "ok"
                /\ faults' = {}
                /\ UNCHANGED <<panel, clicks, evaluated, businesses,
                               businessesWithoutWebsites, processedWebsites,
                               processedBusinessNames, collectedBusinesses>>
           ELSE IF ev \in {"query", "nameEval"}
           THEN /\ Caught({ev}, panel)
                /\ UNCHANGED <<clicks, evaluated, businesses,
                               businessesWithoutWebsites, processedWebsites,
                               processedBusinessNames, collectedBusinesses>>
           ELSE /\ name \notin processedBusinessNames
                /\ scanning   => /\ e.site # 0
                                  /\ url \notin processedWebsites
                                  /\ ScansStarted(result, FirstProbes)
                /\ processedBusinessNames' = processedBusinessNames \cup {name}
                /\ clicks' = clicks + 1
                /\ IF ev \in {"click", "detail"}
                   THEN /\ Caught({ev}, IF ev = "click" THEN panel ELSE <<e>>)
                        /\ UNCHANGED <<evaluated, businesses,
                                       businessesWithoutWebsites,
                                       processedWebsites, collectedBusinesses>>
                   ELSE IF e.site = 0
                   THEN /\ businessesWithoutWebsites' =
                             Append(businessesWithoutWebsites, NoWebsiteListing(name))
                        /\ GoBack
                        /\ UNCHANGED <<evaluated, businesses,
                                       processedWebsites, collectedBusinesses>>
                   ELSE IF url \in processedWebsites
                   THEN /\ GoBack
                        /\ UNCHANGED <<evaluated, businesses,
                                       businessesWithoutWebsites,
                                       processedWebsites, collectedBusinesses>>
                   ELSE /\ processedWebsites' = processedWebsites \cup {url}
                        /\ evaluated' = Append(evaluated, url)
                        /\ UNCHANGED businessesWithoutWebsites
                        /\ IF result.outcome = "rejected"
                           THEN /\ ev = "none"
                                /\ Caught({"evaluate"}, <<e>>)
                                /\ UNCHANGED <<businesses, collectedBusinesses>>
                           ELSE IF crashed /\ ev = "scan"
                           THEN /\ esc = "ok"
                                /\ faults' = {"scan"}
                                /\ panel' = <<e>>
                                /\ UNCHANGED <<businesses, collectedBusinesses>>
                           ELSE /\ IF crashed
                                   THEN /\ esc = "ok"
                                        /\ faults' = {"scan"}
                                        /\ panel' = <<e>>
                                   ELSE GoBack
                                /\ IF result.score <= Pts(qualityThreshold)
                                   THEN /\ businesses' = Append(businesses,
                                             Prospect(name, url, result))
                                        /\ collectedBusinesses' = collectedBusinesses + 1
                                   ELSE UNCHANGED <<businesses, collectedBusinesses>>
        /\ newNameInSweep' =
             (newNameInSweep \/ processedBusinessNames' # processedBusinessNames)
        /\ mpc' = MainAfterEntry(faults', mode)

\* The page after the next-page button is clicked: a new page of results
NextPage(seen) ==
  {<<>>} \cup (IF Len(seen) < MaxFeed THEN {<<e>> : e \in NewEntries(seen)} ELSE {})

\* The scroll logic after the sweep. container: the scroll container found
\* ("feed", "alt" or "none"); endReached: the bottom check after scrolling;
\* button: the "Next page" button ("absent", "enabled" or "disabled")
MainScroll(container, endReached, button) ==
  /\ MainSweepOver
  /\ UNCHANGED <<evalVars, analyzerVars>>
  /\ mpc' = "loop"
  /\ faults' = {}
  /\ quietSweeps' = QuietSweepsAfter(newNameInSweep, quietSweeps)
  /\ UNCHANGED <<panel, clicks, evaluated, newNameInSweep>>
  /\ UNCHANGED <<maxBusinesses, qualityThreshold, businesses,
                 businessesWithoutWebsites, processedWebsites,
                 processedBusinessNames, collectedBusinesses, mElements, mi>>
  /\ IF collectedBusinesses < maxBusinesses
     THEN LET scrolled == container # "none"
              afterScroll == IF scrolled THEN (needScrolling /\ ~endReached) ELSE FALSE
              turnPage == button = "enabled" /\ ~afterScroll
          IN /\ container = "none" => ~endReached
             /\ needScrolling' =
                  IF button # "absent" /\ ~afterScroll
                  THEN button = "enabled"
                  ELSE afterScroll
             /\ \E grown \in (IF scrolled THEN Grown(listing, loaded) ELSE {listing}) :
                  \E page \in (IF turnPage
                               THEN NextPage(Loaded(loaded, listing, grown))
                               ELSE {grown}) :
                    /\ listing' = page
                    /\ loaded' = IF turnPage
                                 THEN Loaded(loaded, listing, grown) \o page
                                 ELSE Loaded(loaded, listing, grown)
     ELSE /\ container = "none" /\ ~endReached /\ button = "absent"
          /\ needScrolling' = FALSE
          /\ UNCHANGED <<listing, loaded>>

-----------------------------------------------------------------------------
(* Initial states and specifications                                       *)

NoScreenshot == ShotResult(FALSE, "none")

ShotIdle ==
  /\ shotInput = SiteShot([nav |-> "response"], "none")
  /\ screenshot = NoScreenshot
  /\ spc = "idle"
  /\ opc = 0
  /\ inFlight = {}

EvalIdle ==
  /\ evalInput = NoFault(NoUrl, GoodPage)
  /\ evaluation = NoEvaluation
  /\ epc = "idle"
  /\ ShotIdle

PageBlank ==
  /\ listing = <<>> /\ loaded = <<>> /\ panel = <<>> /\ clicks = 0
  /\ evaluated = <<>> /\ faults = {}
  /\ quietSweeps = 0 /\ newNameInSweep = FALSE

\* The page after the search: the first results are in the feed
PageAfterSearch ==
  /\ listing \in UNION {FeedsOfLen(n) : n \in 0..MaxFeed}
  /\ loaded = listing
  /\ panel = <<>> /\ clicks = 0 /\ evaluated = <<>> /\ faults = {}
  /\ quietSweeps = 0 /\ newNameInSweep = FALSE

AnalyzerConstructed(pc) ==
  /\ processedBusinesses = {}
  /\ allBusinesses = <<>>
  /\ lowScoringBusinesses = <<>>
  /\ noNewResultsScrolls = 0
  /\ foundNewBusiness = FALSE
  /\ businessElements = <<>>
  /\ ai = 1
  /\ apc = pc

MainStarted(pc, maxima) ==
  /\ maxBusinesses \in maxima
  /\ qualityThreshold = MAIN_QUALITY_THRESHOLD
  /\ businesses = <<>>
  /\ businessesWithoutWebsites = <<>>
  /\ processedWebsites = {}
  /\ processedBusinessNames = {}
  /\ collectedBusinesses = 0
  /\ needScrolling = TRUE
  /\ mElements = <<>>
  /\ mi = 1
  /\ mpc = pc

\* One call of evaluateWebsite
InitEval ==
  /\ evalInput \in EvalInputs
  /\ evaluation = NoEvaluation
  /\ epc = "ready"
  /\ ShotIdle
  /\ PageBlank
  /\ AnalyzerConstructed("idle")
  /\ MainStarted("idle", {0})

Evaluate ==
  /\ epc = "ready"
  /\ evaluation' = evaluateWebsite(evalInput)
  /\ epc' = "done"
  /\ UNCHANGED <<evalInput, shotInput, screenshot, spc, opc, inFlight>>
  /\ UNCHANGED <<pageVars, historyVars, analyzerVars, mainVars>>

NextEval == Evaluate

SpecEval == InitEval /\ [][NextEval]_vars

\* One call of captureScreenshot
InitShot ==
  /\ evalInput = NoFault(NoUrl, GoodPage)
  /\ evaluation = NoEvaluation
  /\ epc = "idle"
  /\ shotInput \in ShotInputs
  /\ screenshot = NoScreenshot
  /\ spc = "ready"
  /\ opc = 0
  /\ inFlight = {}
  /\ PageBlank
  /\ AnalyzerConstructed("idle")
  /\ MainStarted("idle", {0})

Capture ==
  /\ spc = "ready"
  /\ screenshot' = captureScreenshot(shotInput)
  /\ spc' = "done"
  /\ UNCHANGED <<evalInput, evaluation, epc, shotInput, opc, inFlight>>
  /\ UNCHANGED <<pageVars, historyVars, analyzerVars, mainVars>>

\* The browser operations evaluateWebsite starts after the launch, in program
\* order. awaited: the call is suspended until the operation settles;
\* probe: the probe of throwAt whose rejection is the rejection of this operation.
\* "closeNoResponse" is the browser.close() of if (!response) (275), "close"
\* the one of the finally block (604), which also runs after the return of 276
PageOperations ==
  << [name |-> "newPage", awaited |-> TRUE, probe |-> "newPage"],
     [name |-> "goto", awaited |-> TRUE, probe |-> "none"],
     [name |-> "closeNoResponse", awaited |-> TRUE, probe |-> "none"],
     [name |-> "isMobile", awaited |-> TRUE, probe |-> "mobile"],
     [name |-> "performanceTiming", awaited |-> TRUE, probe |-> "loadTime"],
     [name |-> "mixedContent", awaited |-> TRUE, probe |-> "mixed"],
     [name |-> "setViewportMobile", awaited |-> TRUE, probe |-> "none"],
     [name |-> "isMobileResponsive", awaited |-> TRUE, probe |-> "responsive"],
     [name |-> "setViewportDesktop", awaited |-> TRUE, probe |-> "none"],
     [name |-> "content", awaited |-> TRUE, probe |-> "seo"],
     [name |-> "hasPhone", awaited |-> FALSE, probe |-> "none"],
     [name |-> "hasEmail", awaited |-> FALSE, probe |-> "none"],
     [name |-> "brokenImages", awaited |-> TRUE, probe |-> "broken"],
     [name |-> "close", awaited |-> TRUE, probe |-> "none"] >>

CloseIndex == Len(PageOperations)
ReturnedIndex == Len(PageOperations) + 1

\* The two calls of browser.close()
CloseNames == {"closeNoResponse", "close"}

AwaitedNames ==
  {PageOperations[i].name : i \in {j \in 1..Len(PageOperations) :
                                     PageOperations[j].awaited}}

\* Where the call goes on when the awaited operation at index i settles
AfterOperation(i, in) ==
  LET op == PageOperations[i]
  IN IF i = CloseIndex THEN ReturnedIndex
     ELSE IF op.name = "closeNoResponse" THEN CloseIndex
     ELSE IF op.probe # "none" /\ op.probe = in.throwAt THEN CloseIndex
     ELSE IF op.name = "goto" /\ in.nav = "response" THEN i + 2
     ELSE i + 1

\* Calls whose page operations are followed one by one: the browser launches,
\* the site answers or not, one awaited operation may reject
ScanInputs ==
  { in \in FaultInputs : /\ in.url = Url("https://", "example.com")
                         /\ in.launch = "ok"
                         /\ in.closeRejects = {}
                         /\ in.nav \in {"response", "reject-other"} }

InitScans ==
  /\ evalInput \in ScanInputs
  /\ evaluation = NoEvaluation
  /\ epc = "idle"
  /\ shotInput = SiteShot([nav |-> "response"], "none")
  /\ screenshot = NoScreenshot
  /\ spc = "idle"
  /\ opc = 1
  /\ inFlight = {}
  /\ PageBlank
  /\ AnalyzerConstructed("idle")
  /\ MainStarted("idle", {0})

\* The call reaches its next operation and starts it; it goes on at once
\* when the operation is not awaited
StartOperation ==
  /\ opc \in 1..CloseIndex
  /\ inFlight \cap AwaitedNames = {}
  /\ inFlight' = inFlight \cup {PageOperations[opc].name}
  /\ opc' = IF PageOperations[opc].awaited THEN opc ELSE opc + 1
  /\ UNCHANGED <<evalInput, evaluation, epc, shotInput, screenshot, spc>>
  /\ UNCHANGED <<pageVars, historyVars, analyzerVars, mainVars>>

\* The browser settles an operation in flight. Closing the browser rejects
\* whatever is still pending on its pages
SettleOperation(name) ==
  /\ name \in inFlight
  /\ inFlight' = IF name \in CloseNames THEN {} ELSE inFlight \ {name}
  /\ opc' = IF name \in AwaitedNames THEN AfterOperation(opc, evalInput)
            ELSE opc
  /\ UNCHANGED <<evalInput, evaluation, epc, shotInput, screenshot, spc>>
  /\ UNCHANGED <<pageVars, historyVars, analyzerVars, mainVars>>

NextScans ==
  \/ StartOperation
  \/ \E name \in {PageOperations[i].name : i \in 1..Len(PageOperations)} :
       SettleOperation(name)

SpecScans == InitScans /\ [][NextScans]_vars

\* The two operations that open a browsing context for one web site
InitContexts == InitEval \/ InitShot
NextContexts == Evaluate \/ Capture
SpecContexts == InitContexts /\ [][NextContexts]_vars

\* One run of WebsiteAnalyzer.scrapeResults, entered from searchAndAnalyze
InitAnalyzer ==
  /\ EvalIdle
  /\ PageAfterSearch
  /\ AnalyzerConstructed("loop")
  /\ MainStarted("idle", {0})

NextAnalyzer ==
  \/ AnalyzerLoopExit
  \/ AnalyzerSnapshot
  \/ AnalyzerSnapshotFails
  \/ /\ apc = "entries"
     /\ \E ev \in AnalyzerEntryEvents, st \in SiteStates(QUALITY_THRESHOLD) :
       \E failAt \in (IF ev = "report" THEN 1..BATCH_SIZE ELSE {0}),
          stage \in (IF ev = "report" THEN {"render", "csv"} ELSE {"render"}),
          mode \in (IF ev = "scan" THEN UnhandledRejectionModes ELSE {"warn"}) :
         AnalyzerEntry(ev, st, failAt, stage, mode)
  \/ \E container \in {"present", "missing", "queryFails"} :
       AnalyzerScroll(container)
  \/ \E failAt \in 0..MaxFeed, stage \in {"render", "csv"} :
       AnalyzerFlush(failAt, stage)

SpecAnalyzer == InitAnalyzer /\ [][NextAnalyzer]_vars

\* One run of scrapeBusinesses, from the loaded result list
InitMain ==
  /\ EvalIdle
  /\ PageAfterSearch
  /\ AnalyzerConstructed("idle")
  /\ MainStarted("loop", 0..MaxWanted)

NextMain ==
  \/ \E close \in {"ok", "fail"} : MainLoopExit(close)
  \/ MainLoading
  \/ MainLoadingOver
  \/ MainSnapshot
  \/ /\ mpc \in {"loop", "entries"}
     /\ \E failAt \in MainFeedOperations, container \in {"feed", "alt", "none"},
        endReached \in BOOLEAN, close \in {"ok", "fail"} :
       MainAbort(failAt, container, endReached, close)
  \/ /\ mpc = "entries"
     /\ \E ev \in MainEntryEvents, st \in MainSiteStates, esc \in MainCatchOutcomes :
       \E mode \in (IF ev \in {"scan", "scanAtClose"}
                    THEN UnhandledRejectionModes ELSE {"warn"}) :
         MainEntry(ev, st, esc, mode)
  \/ \E container \in {"feed", "alt", "none"}, endReached \in BOOLEAN,
        button \in {"absent", "enabled", "disabled"} :
       MainScroll(container, endReached, button)

SpecMain == InitMain /\ [][NextMain]_vars

\* The scroll or the page turn after which the loop does not go on: the
\* bottom of the list is reached and there is no further page
MainScrollEnds ==
  \E container \in {"feed", "alt", "none"}, endReached \in BOOLEAN,
     button \in {"absent", "disabled"} :
    MainScroll(container, endReached, button) /\ ~needScrolling'

\* scrapeBusinesses on a finite feed: the function always takes its next
\* step, and scrolling a finite feed reaches its bottom and its last page.
\* What the loading check answers is left to the page
SpecMainFair ==
  /\ InitMain
  /\ [][NextMain]_vars
  /\ WF_vars(NextMain)
  /\ SF_vars(MainScrollEnds)

\* A later run in the same process: new WebsiteAnalyzer(...), initialize(),
\* searchAndAnalyze(...) on a fresh page. The module-level processedBusinesses
\* is the one Set of the process
AnalyzerNewRun ==
  /\ apc = "done"
  /\ UNCHANGED <<evalVars, mainVars>>
  /\ listing' \in UNION {FeedsOfLen(n) : n \in 0..MaxFeed}
  /\ loaded' = listing'
  /\ panel' = <<>> /\ clicks' = 0 /\ evaluated' = <<>> /\ faults' = {}
  /\ quietSweeps' = 0 /\ newNameInSweep' = FALSE
  /\ allBusinesses' = <<>>
  /\ lowScoringBusinesses' = <<>>
  /\ noNewResultsScrolls' = 0
  /\ foundNewBusiness' = FALSE
  /\ businessElements' = <<>>
  /\ ai' = 1
  /\ apc' = "loop"
  /\ UNCHANGED processedBusinesses

\* Runs of scrapeResults one after another in one process, the browser
\* answering every request
NextRuns ==
  \/ AnalyzerLoopExit
  \/ AnalyzerSnapshot
  \/ \E st \in SiteStates(QUALITY_THRESHOLD) : AnalyzerEntry("none", st, 0, "render", "warn")
  \/ \E container \in {"present", "missing"} : AnalyzerScroll(container)
  \/ AnalyzerFlush(0, "render")
  \/ AnalyzerNewRun

SpecRuns == InitAnalyzer /\ [][NextRuns]_vars

\* One run of either discovery program
InitDiscovery == InitAnalyzer \/ InitMain
NextDiscovery == NextAnalyzer \/ NextMain
SpecDiscovery == InitDiscovery /\ [][NextDiscovery]_vars

Init == InitEval \/ InitAnalyzer \/ InitMain
Next == NextEval \/ NextAnalyzer \/ NextMain
Spec == Init /\ [][Next]_vars

-----------------------------------------------------------------------------
(* Properties of evaluateWebsite, checked under SpecEval                   *)

\* The call is over and handed a result back to its caller
EvalReturned == epc = "done" /\ evaluation.outcome = "returned"

\* A fault the environment puts into the call
Faulty(in) ==
  \/ in.launch = "fail"
  \/ in.nav # "response"
  \/ in.throwAt # "none"
  \/ in.closeRejects # {}

\* C1: for every call of evaluateWebsite that returns, whatever the url and
\* whatever the page does, the returned score is at least 0 and at most 100.
C1_ScoreInRange ==
  EvalReturned => 0 <= evaluation.score /\ evaluation.score <= Pts(100)

\* C1 witness: a call in which a probe threw on a page answering with an
\* error status, so that the catch block's 30 points hit the floor of 0.
C1_Witness ==
  /\ EvalReturned
  /\ evaluation.path = "caught"
  /\ evalInput.page.status >= 400
  /\ evaluation.score = 0

\* C2 (as the spec states it): every call returns a result, and a call that
\* met a fault returns one carrying a diagnostic issue; no call rejects.
C2_NeverRejects ==
  epc = "done" =>
    /\ evaluation.outcome = "returned"
    /\ Faulty(evalInput) => evaluation.issues # <<>>

\* C4 (as the spec states it): when the page load fails, by a rejected
\* navigation or by a navigation that yields no response, the returned result
\* carries exactly one diagnostic issue and no probe has run.
C4_LoadFailureOneIssue ==
  (/\ EvalReturned
   /\ evalInput.url # NoUrl
   /\ evalInput.throwAt # "newPage"
   /\ evalInput.nav # "response")
  => /\ Len(evaluation.issues) = 1
     /\ evaluation.probesRun = 0

-----------------------------------------------------------------------------
(* Properties of the discovery loops, checked under SpecAnalyzer, SpecMain *)
(* and SpecDiscovery                                                       *)

\* The identity of a listing: its name, trimmed and case-folded
NormalizedName(name) == ToLowerCase(Trim(name))

NoTwoShareName(collected) ==
  \A i, j \in 1..Len(collected) :
    i < j => NormalizedName(collected[i].name) # NormalizedName(collected[j].name)

\* C3 (as the spec states it): no two entries of the collected sequence,
\* allBusinesses of scrapeResults or businesses of scrapeBusinesses, share a
\* normalized name.
C3_NoDuplicateNames ==
  NoTwoShareName(allBusinesses) /\ NoTwoShareName(businesses)

\* C5 (as the spec states it): at every iteration boundary of either loop,
\* each of the conditions alone stops the run: the collected count has
\* reached the maximum, the feed has signalled its end, or five sweeps in a
\* row have added no new entry. scrapeResults takes no maximum and reads no
\* end marker, so only the third condition can be stated for it.
C5_StopsOnAnyCondition ==
  /\ (apc = "loop" /\ quietSweeps >= maxNoNewResultsScrolls)
       => ~AnalyzerLoopCondition
  /\ (mpc = "loop" /\ (\/ collectedBusinesses >= maxBusinesses
                       \/ ~needScrolling
                       \/ quietSweeps >= maxNoNewResultsScrolls))
       => ~MainLoopCondition

\* C6: once five sweeps of scrapeResults in a row have added no new entry,
\* the counter has reached the threshold, so the loop is over at that
\* boundary and no further sweep starts.
C6_FiveQuietSweepsStop ==
  (apc # "idle" /\ quietSweeps >= maxNoNewResultsScrolls)
  => /\ noNewResultsScrolls >= maxNoNewResultsScrolls
     /\ ~AnalyzerLoopCondition
     /\ apc \in {"loop", "flush", "done"}

\* C6 witness: a finished run whose last five sweeps were quiet, after a
\* listing had been collected.
C6_Witness ==
  /\ apc = "done"
  /\ quietSweeps = maxNoNewResultsScrolls
  /\ Len(allBusinesses) > 0

\* C7: businesses never holds more than maxBusinesses entries, and once it
\* holds that many no further entry is clicked or evaluated.
C7_NeverAboveMax ==
  /\ [](mpc # "idle" => Len(businesses) <= maxBusinesses)
  /\ [][(mpc # "idle" /\ Len(businesses) >= maxBusinesses)
          => (clicks' = clicks /\ evaluated' = evaluated)]_vars

\* C7 witness: the maximum is reached in the middle of a sweep, with an
\* entry of the sweep still unvisited.
C7_Witness ==
  /\ mpc = "entries"
  /\ maxBusinesses > 0
  /\ Len(businesses) = maxBusinesses
  /\ mi <= Len(mElements)

EntryFaults == AnalyzerEntryFaults \cup MainEntryFaults

\* C8 (as the spec states it): a step of the sweep in which an operation on
\* the entry fails is finished at that entry: the sweep stays in its for
\* loop and goes on with the next entry, whichever operation failed.
C8_EntryFailureContained ==
  [][faults' \cap EntryFaults # {}
       => \/ apc = "entries" /\ apc' = "entries" /\ ai' = ai + 1
          \/ mpc = "entries" /\ mpc' = "entries" /\ mi' = mi + 1]_vars

\* C9 (as the spec states it): when scrapeResults returns, every business of
\* lowScoringBusinesses has reportGenerated true.
C9_AllLowScoringReported ==
  apc = "done" =>
    \A k \in 1..Len(lowScoringBusinesses) :
      allBusinesses[lowScoringBusinesses[k]].reportGenerated

\* C10 (as the spec states it): a new entry whose detail panel shows no
\* website link, processed without a fault, adds a listing with a null
\* websiteUrl to the run's output, and the evaluator is not invoked.
C10_NoWebsiteListed ==
  [][(/\ apc = "entries"
      /\ ai <= Len(businessElements)
      /\ businessElements[ai].site = 0
      /\ NormalizedName(businessElements[ai].name) \notin processedBusinesses
      /\ clicks' = clicks + 1
      /\ faults' = {})
     => /\ evaluated' = evaluated
        /\ Len(allBusinesses') = Len(allBusinesses) + 1
        /\ allBusinesses'[Len(allBusinesses')].websiteUrl = NoUrl]_vars

-----------------------------------------------------------------------------
(* Scoring scenarios of evaluateWebsite, checked under SpecEval            *)

\* The call loaded the page and ran every probe without a fault
EvalCompleted ==
  /\ EvalReturned
  /\ evaluation.path \in {"reachable", "reachable-error"}

\* The page of the scenario: reachable over HTTPS with a certificate that has
\* not expired, title of 40 characters, description of 100, one H1, an H2, a
\* viewport tag (with or without a content attribute), social links, a phone
\* number, no broken image
ScenarioPage(p) ==
  /\ p.status < 400
  /\ p.secure /\ p.finalHttps /\ DaysUntilExpiry(p) >= 0
  /\ p.titleLen = 40 /\ p.metaLen = 100
  /\ p.h1Count = 1 /\ p.h2Count >= 1
  /\ p.viewport # "absent"
  /\ p.social /\ p.phoneInText
  /\ BrokenImages(p) = 0

\* What the code asks of the certificate and of the viewport tag beyond the
\* scenario's words: 30 whole days or more until expiry (329), a content
\* attribute that is not empty (455-456)
ScenarioDetailsPass(p) ==
  /\ DaysUntilExpiry(p) >= 30
  /\ p.viewport = "present"

\* The probes outside the SEO block that the scenario is silent about pass
QuietProbesPass(p) ==
  /\ p.loadTime <= 3000 /\ ~p.mixed /\ p.responsive
  /\ ImagesWithoutAlt(p) = 0
  /\ (p.footerYears = {} \/ SetMax(p.footerYears) >= p.currentYear - 1)

\* The four SEO checks the scenario is silent about pass
QuietSeoChecksPass(p) ==
  /\ p.canonical
  /\ p.robots \notin {"absent", "noindex", "nofollow"}
  /\ p.structuredData
  /\ {"title", "description", "image"} \subseteq p.og

NoPenalty == evaluation.score = Pts(100) /\ evaluation.issues = <<>>

\* C11 (as the spec states it): the scenario page scores 100 with no issue,
\* whatever its canonical link, robots directive, structured data and social
\* preview metadata are.
C11_ScenarioScores100 ==
  (EvalCompleted /\ ScenarioPage(evalInput.page) /\ QuietProbesPass(evalInput.page))
  => NoPenalty

\* C11 (amended): the scenario page scores 100 with no issue exactly when
\* its certificate has 30 days or more left, its viewport tag has a content
\* attribute, and it also has a canonical link, a robots directive without
\* noindex or nofollow, structured data and complete social preview metadata.
C11_ScenarioScores100WithSeo ==
  (EvalCompleted /\ ScenarioPage(evalInput.page) /\ QuietProbesPass(evalInput.page))
  => (NoPenalty <=> (/\ ScenarioDetailsPass(evalInput.page)
                     /\ QuietSeoChecksPass(evalInput.page)))

\* C11 witness: a scenario page with two H2 and an e-mail address, all four
\* SEO checks passing, evaluated to 100.
C11_Witness ==
  /\ EvalCompleted
  /\ ScenarioPage(evalInput.page) /\ QuietProbesPass(evalInput.page)
  /\ ScenarioDetailsPass(evalInput.page)
  /\ QuietSeoChecksPass(evalInput.page)
  /\ evalInput.page.h2Count = 2 /\ evalInput.page.emailInText
  /\ NoPenalty

\* The navigation of the call produced a response
PageLoaded ==
  /\ evalInput.url # NoUrl /\ evalInput.launch = "ok"
  /\ evalInput.throwAt # "newPage" /\ evalInput.nav = "response"

\* No probe other than the status check finds anything on the page
OtherProbesPass(p) ==
  RunProbes(Len(Probes), [p EXCEPT !.status = 200]).issues = <<>>

\* C12: a page that loads with a status of 400 or more never scores above
\* 15; when the call completes, every probe has run, and the score is 15 if
\* no other probe finds anything.
C12_ErrorStatusAtMost15 ==
  (EvalReturned /\ PageLoaded /\ evalInput.page.status >= 400)
  => /\ evaluation.score <= Pts(15)
     /\ EvalCompleted =>
          /\ evaluation.probesRun = Len(Probes)
          /\ OtherProbesPass(evalInput.page) => evaluation.score = Pts(15)

\* C12 witness: a 404 page with a slow load and nothing else, scored 5 after
\* all twelve probes.
C12_Witness ==
  /\ EvalCompleted
  /\ evalInput.page.status = 404
  /\ evalInput.page.loadTime > 3000
  /\ evaluation.probesRun = Len(Probes)
  /\ evaluation.score = Pts(5)

\* Ticks by which the certificate's validTo lies before now (negative: after)
CertificateAge(p) == p.nowTicks - p.validTo * TicksPerSecond

\* Whole days in a number of ticks, the fraction of a day dropped
WholeDays(ticks) == ticks \div (SecondsPerDay * TicksPerSecond)

HasIssue(kind) ==
  \E i \in 1..Len(evaluation.issues) : evaluation.issues[i].k = kind

\* C13 (as the spec states it): for a certificate that expired N whole days
\* (N >= 1) and any fraction of a day ago, the issue reports N days, the
\* expired penalty is applied and the near-expiry penalty is not.
C13_ExpiredWholeDays ==
  (/\ EvalCompleted
   /\ evalInput.page.secure /\ evalInput.page.finalHttps
   /\ WholeDays(CertificateAge(evalInput.page)) >= 1)
  => /\ \E i \in 1..Len(evaluation.issues) :
          evaluation.issues[i] =
            Issue("certificate-expired", WholeDays(CertificateAge(evalInput.page)))
     /\ ~HasIssue("certificate-expires")

\* The certificate probe finds nothing
CertificatePasses(p) == p.secure /\ p.finalHttps /\ DaysUntilExpiry(p) >= 30

\* The pages that differ from p in one probe or SEO check, which passes on p
\* and fails on them; an image that breaks or loses its description stays
\* in its place
OneMoreFinding(p) ==
  (IF p.status < 400 THEN {[p EXCEPT !.status = 404]} ELSE {})
  \cup (IF IsMobile(p)
        THEN {[p EXCEPT !.mediaNarrow = FALSE, !.viewport = "absent"]} ELSE {})
  \cup (IF p.loadTime <= 3000 THEN {[p EXCEPT !.loadTime = 3001]} ELSE {})
  \cup (IF CertificatePasses(p)
        THEN {[p EXCEPT !.secure = FALSE], [p EXCEPT !.finalHttps = FALSE],
              [p EXCEPT !.validTo = Days(10), !.nowTicks = 0],
              [p EXCEPT !.validTo = Days(-10), !.nowTicks = 0]}
        ELSE {})
  \cup (IF ~p.mixed THEN {[p EXCEPT !.mixed = TRUE]} ELSE {})
  \cup (IF p.responsive THEN {[p EXCEPT !.responsive = FALSE]} ELSE {})
  \cup (IF TitleFindings(p) = <<>>
        THEN {[p EXCEPT !.titleLen = n] : n \in {0, 9, 61}} ELSE {})
  \cup (IF MetaFindings(p) = <<>>
        THEN {[p EXCEPT !.metaLen = n] : n \in {0, 49, 161}} ELSE {})
  \cup (IF p.h1Count = 1 THEN {[p EXCEPT !.h1Count = n] : n \in {0, 2}} ELSE {})
  \cup (IF p.h2Count > 0 THEN {[p EXCEPT !.h2Count = 0]} ELSE {})
  \cup (IF p.canonical THEN {[p EXCEPT !.canonical = FALSE]} ELSE {})
  \cup (IF RobotsFindings(p) = <<>>
        THEN {[p EXCEPT !.robots = r] : r \in {"absent", "noindex"}} ELSE {})
  \cup (IF p.structuredData THEN {[p EXCEPT !.structuredData = FALSE]} ELSE {})
  \cup (IF OpenGraphFindings(p) = <<>> THEN {[p EXCEPT !.og = {"title"}]} ELSE {})
  \cup (IF p.viewport = "present" THEN {[p EXCEPT !.viewport = "empty"]} ELSE {})
  \cup {[p EXCEPT !.images[i].alt = FALSE] :
          i \in {j \in 1..Len(p.images) : p.images[j].alt}}
  \cup {[p EXCEPT !.images[i].src = "none"] :
          i \in {j \in 1..Len(p.images) : ~IsBroken(p.images[j])}}
  \cup (IF p.social THEN {[p EXCEPT !.social = FALSE]} ELSE {})
  \cup (IF p.phoneInText \/ p.emailInText \/ p.hasForm
        THEN {[p EXCEPT !.phoneInText = FALSE, !.emailInText = FALSE,
                        !.hasForm = FALSE]}
        ELSE {})
  \cup (IF CheckCopyright([score |-> 0, issues |-> <<>>], p).issues = <<>>
        THEN {[p EXCEPT !.footerYears = {p.currentYear - 2}]} ELSE {})

\* The score of the same call on page q
ScoreOn(q) == evaluateWebsite([evalInput EXCEPT !.page = q]).score

\* C14: on a loaded page, one more failing probe, one more failing SEO
\* check, an error status or one more broken image never gives a higher
\* final score.
C14_Monotone ==
  EvalCompleted =>
    \A q \in OneMoreFinding(evalInput.page) : ScoreOn(q) <= evaluation.score

\* C14 witness: a page on which every probe but one has found something and
\* the score is above 15; the error status then lowers it to 0.
C14_Witness ==
  /\ EvalCompleted
  /\ evalInput.page.status < 400
  /\ evaluation.score > Pts(15)
  /\ Len(evaluation.issues) >= 4
  /\ ScoreOn([evalInput.page EXCEPT !.status = 404]) = 0

\* Points a finding takes from the SEO score, by its kind
SeoPenaltyOf(kind) ==
  CASE kind = "seo-title-missing" -> 10
    [] kind = "seo-title-short" -> 5
    [] kind = "seo-title-long" -> 3
    [] kind = "seo-meta-missing" -> 8
    [] kind = "seo-meta-short" -> 4
    [] kind = "seo-meta-long" -> 3
    [] kind = "seo-no-h1" -> 8
    [] kind = "seo-multiple-h1" -> 5
    [] kind = "seo-no-h2" -> 3
    [] kind = "seo-no-canonical" -> 3
    [] kind = "seo-no-robots" -> 2
    [] kind = "seo-blocked" -> 10
    [] kind = "seo-no-schema" -> 5
    [] kind = "seo-no-opengraph" -> 3
    [] kind = "seo-no-viewport" -> 5
    [] OTHER -> 0

\* Quarter points a finding outside the SEO block takes from the score
PenaltyOf(f) ==
  CASE f.k \in {"not-mobile", "no-certificate", "certificate-expired",
                "not-responsive"} -> Pts(15)
    [] f.k \in {"slow", "no-contact"} -> Pts(10)
    [] f.k \in {"certificate-expires", "mixed-content", "images-without-alt",
                "no-social-links", "outdated-copyright"} -> Pts(5)
    [] f.k = "broken-images" -> Pts(Min(15, 3 * f.n))
    [] OTHER -> 0

\* The SEO findings of a sequence together take a quarter of their sum, 20
\* points at most
SeoLoss(fs) ==
  LET sum == SumPenalties([i \in 1..Len(fs) |-> [pen |-> SeoPenaltyOf(fs[i].k)]])
  IN Min(Pts(20), sum)

\* The score of a sequence of findings, read from left to right
RECURSIVE ScoreOfFindings(_)
ScoreOfFindings(fs) ==
  IF fs = <<>> THEN Pts(100)
  ELSE LET f == fs[Len(fs)]
           before == SubSeq(fs, 1, Len(fs) - 1)
       IN CASE f.k = "no-url" -> 0
            [] f.k = "http-error" -> Pts(15)
            [] f.k \in {"inaccessible-ssl", "inaccessible-server"} -> Pts(10)
            [] f.k = "evaluation-error" ->
                 Max(0, ScoreOfFindings(before) - SeoLoss(before) - Pts(30))
            [] OTHER -> ScoreOfFindings(before) - PenaltyOf(f)

\* reduce(findings): the final score of a finding sequence
Reduce(fs) ==
  IF fs # <<>> /\ fs[Len(fs)].k = "evaluation-error"
  THEN ScoreOfFindings(fs)
  ELSE Max(0, ScoreOfFindings(fs) - SeoLoss(fs))

\* C15: the returned score is a function of the returned finding sequence
\* alone: two evaluations with the same findings return the same score and
\* the same issues.
C15_ScoreFromFindingsOnly ==
  EvalReturned => evaluation.score = Reduce(evaluation.issues)

\* C15 witness: two pages that differ (one with a form, one without any
\* contact) with the same four findings and the same score.
C15_Witness ==
  /\ EvalCompleted
  /\ Len(evaluation.issues) = 4
  /\ evalInput.page.hasForm
  /\ LET other == [evalInput EXCEPT !.page.hasForm = FALSE,
                                    !.page.phoneInText = FALSE,
                                    !.page.emailInText = FALSE]
     IN /\ evaluateWebsite(other).issues = evaluation.issues
        /\ evaluateWebsite(other).score = evaluation.score

-----------------------------------------------------------------------------
(* Further properties of the discovery loops                               *)

\* The URLs handed to evaluateWebsite so far in the run
EvaluatedUrls == {evaluated[i] : i \in 1..Len(evaluated)}

\* C16 (as the spec states it): within one run no website URL is handed to
\* evaluateWebsite more than once: a step that processes, without a fault, an
\* entry whose website was already evaluated in this run does not evaluate.
C16_NoUrlEvaluatedTwice ==
  [][(/\ faults' = {}
      /\ \/ /\ apc = "entries" /\ ai <= Len(businessElements)
            /\ businessElements[ai].site # 0
            /\ SiteUrl(businessElements[ai].site) \in EvaluatedUrls
         \/ /\ mpc = "entries" /\ mi <= Len(mElements)
            /\ mElements[mi].site # 0
            /\ SiteUrl(mElements[mi].site) \in EvaluatedUrls)
     => evaluated' = evaluated]_vars

\* C17 (as the spec states it): the set of seen names belongs to one run;
\* every run starts with it empty.
C17_NamesScopedToRun ==
  [][(apc = "done" /\ apc' = "loop") => processedBusinesses' = {}]_vars

-----------------------------------------------------------------------------
(* Terminal paths and browsing contexts, checked under SpecEval and        *)
(* SpecContexts                                                            *)

LastIssueKind ==
  IF evaluation.issues = <<>> THEN "none"
  ELSE evaluation.issues[Len(evaluation.issues)].k

\* The three terminal paths of the spec, by what the result shows
EndedUnreachable ==
  /\ evalInput.url # NoUrl
  /\ evalInput.nav # "response"
  /\ evaluation.probesRun = 0
  /\ LastIssueKind # "evaluation-error"

EndedReachableWithError ==
  /\ evalInput.url # NoUrl
  /\ evalInput.nav = "response" /\ evalInput.page.status >= 400
  /\ evaluation.probesRun = Len(Probes)
  /\ evaluation.issues # <<>> /\ evaluation.issues[1].k = "http-error"
  /\ LastIssueKind # "evaluation-error"

EndedReachableSuccess ==
  /\ evalInput.url # NoUrl
  /\ evalInput.nav = "response" /\ evalInput.page.status < 400
  /\ evaluation.probesRun = Len(Probes)
  /\ ~HasIssue("http-error")
  /\ LastIssueKind # "evaluation-error"

\* The two further paths of the code: no url given, and a browser operation
\* that threw inside the try
EndedWithoutUrl ==
  /\ evalInput.url = NoUrl
  /\ evaluation.score = 0 /\ evaluation.issues = <<Issue("no-url", 0)>>
  /\ evaluation.browser = "none"

EndedCaught ==
  /\ evalInput.url # NoUrl
  /\ LastIssueKind = "evaluation-error"
  /\ evaluation.probesRun < Len(Probes)
  /\ evaluation.issues =
       Append((IF evalInput.throwAt = "newPage" THEN RunProbes(0, evalInput.page)
               ELSE IF evalInput.nav # "response"
                    THEN AfterGoto(RunProbes(0, evalInput.page), evalInput)
                    ELSE RunProbes(evaluation.probesRun, evalInput.page)).issues,
              Issue("evaluation-error", 0))

ExactlyOne(bs) == Cardinality({i \in 1..Len(bs) : bs[i]}) = 1

\* C18 (as the spec states it): every returned evaluation ended on exactly
\* one of three paths: unreachable with no probe run, reachable with an
\* error status and all probes run, or reachable with all probes run.
C18_ThreeTerminalPaths ==
  EvalReturned =>
    ExactlyOne(<<EndedUnreachable, EndedReachableWithError, EndedReachableSuccess>>)

\* C18 (amended): every returned evaluation ended on exactly one of five
\* paths: the three above, the return for an empty url, or the catch block,
\* whose result carries the findings of the probes run before the failure
\* followed by the evaluation-error issue.
C18_FiveTerminalPaths ==
  EvalReturned =>
    ExactlyOne(<<EndedUnreachable, EndedReachableWithError, EndedReachableSuccess,
                 EndedWithoutUrl, EndedCaught>>)

\* C18 witness: a result produced after six of the twelve probes, by the
\* catch block.
C18_Witness ==
  /\ EvalReturned
  /\ EndedCaught
  /\ evaluation.probesRun = 6
  /\ Len(evaluation.issues) >= 2

-----------------------------------------------------------------------------
(* The no-progress counter of scrapeResults, checked under SpecAnalyzer    *)

\* A step that ends an iteration of the while loop
IterationEnds == apc = "entries" /\ apc' = "loop"

\* C19 (as the spec states it): an iteration that added a new name ends with
\* the counter at 0, whatever else happened in it, and the counter is
\* incremented only by iterations that added no new name.
C19_CounterResetOnNewName ==
  [][(IterationEnds /\ newNameInSweep => noNewResultsScrolls' = 0)
     /\ (IterationEnds /\ noNewResultsScrolls' > noNewResultsScrolls
           => ~newNameInSweep)]_vars

-----------------------------------------------------------------------------
(* Browsing contexts, checked under SpecContexts                           *)

\* evaluateWebsite is over and its close calls did not fail
EvaluateOverCloseWorks ==
  epc = "done" /\ evaluation.outcome # "none" /\ evalInput.closeRejects = {}

\* captureScreenshot is over and page.close does not fail
CaptureOverCloseWorks == spc = "done" /\ shotInput.close = "ok"

\* C20: every browsing context opened for one web site (the browser launched
\* by evaluateWebsite, the page opened by captureScreenshot) is closed by the
\* time the operation returns or fails, on every path, an error between the
\* opening and the normal close included, as long as closing itself works
C20_ContextsClosed ==
  /\ EvaluateOverCloseWorks => evaluation.browser # "open"
  /\ CaptureOverCloseWorks => screenshot.page # "open"

-----------------------------------------------------------------------------
(* Page operations of evaluateWebsite, checked under SpecScans             *)

\* C21: no operation runs in parallel with another: an operation started by
\* evaluateWebsite (the phone and email text scans included) has settled
\* before the next one starts and before the browser is closed
C21_OneOperationAtATime == Cardinality(inFlight) <= 1

-----------------------------------------------------------------------------
(* Failures of the feed, checked under SpecDiscovery                       *)

\* Failures of the page outside the work on one entry
FeedFaults == {"snapshot", "scroll", "feed"}

-----------------------------------------------------------------------------
(* Numbers of the score, checked under SpecEval                            *)

\* A score in quarter points that is a whole number of points
IsInteger(quarters) == quarters % ScoreScale = 0

\* C23 (as the spec states it): the score of every result is an integer, for
\* every combination of probe outcomes, the SEO findings folded in through
\* the damped contribution included.
C23_ScoreIsInteger == EvalReturned => IsInteger(evaluation.score)

-----------------------------------------------------------------------------
(* The prospects list of scrapeBusinesses, checked under SpecMain          *)

\* C24 (as the spec states it): every business in the prospects list of
\* scrapeBusinesses has a website score strictly below qualityThreshold; a
\* business whose score equals the threshold is not added.
C24_ProspectsBelowThreshold ==
  \A i \in 1..Len(businesses) :
    businesses[i].websiteScore < Pts(qualityThreshold)

-----------------------------------------------------------------------------
(* Causes and penalties, checked under SpecEval                            *)

\* The issues the evaluation of page q reports, the browser working
IssuesOn(q) == evaluateWebsite(NoFault(evalInput.url, q)).issues

\* The page of the call with the viewport meta tag put in
WithViewportTag == [evalInput.page EXCEPT !.viewport = "present"]

\* The page of the call served over HTTPS with a certificate
ServedSecurely == [evalInput.page EXCEPT !.secure = TRUE, !.finalHttps = TRUE]

\* The condition adds at most one issue and lowers the score through at most
\* one probe: with the condition repaired at most one issue goes away
AtMostOneIssueFor(repaired) ==
  Len(evaluation.issues) <= Len(IssuesOn(repaired)) + 1

\* C25 (as the spec states it): no cause is penalized twice in one
\* evaluation: the absence of a viewport meta tag, or the page not being
\* served over HTTPS, lowers the score through at most one probe and adds at
\* most one issue.
C25_NoCausePenalizedTwice ==
  /\ (EvalCompleted /\ evalInput.page.viewport = "absent")
       => AtMostOneIssueFor(WithViewportTag)
  /\ (EvalCompleted /\ (~evalInput.page.secure \/ ~evalInput.page.finalHttps))
       => AtMostOneIssueFor(ServedSecurely)

-----------------------------------------------------------------------------
(* The SEO fold, checked under SpecEval                                    *)

\* The issues the SEO block of the call added, and the quarter points the
\* score went down across it
SeoIssuesOf(p) ==
  LET k == ProbeIndex("seo")
      upTo == RunProbes(k, p).issues
  IN SubSeq(upTo, Len(RunProbes(k - 1, p).issues) + 1, Len(upTo))

SeoDrop(p) ==
  LET k == ProbeIndex("seo")
  IN RunProbes(k - 1, p).score - RunProbes(k, p).score

\* C26: the SEO findings lower the overall score by exactly
\* min(20, (100 - seoScore) / 4), seoScore being 100 minus the sum of the SEO
\* penalties; the contribution is at most 20 points and is 0 when there is
\* no SEO finding.
C26_SeoContribution ==
  EvalCompleted =>
    /\ SeoDrop(evalInput.page) = SeoLoss(SeoIssuesOf(evalInput.page))
    /\ SeoDrop(evalInput.page) <= Pts(20)
    /\ SeoIssuesOf(evalInput.page) = <<>> => SeoDrop(evalInput.page) = 0

\* C26 witness: an evaluation with several SEO findings whose contribution
\* is more than 10 points and not a whole number of points
C26_Witness ==
  /\ EvalCompleted
  /\ Len(SeoIssuesOf(evalInput.page)) >= 3
  /\ SeoDrop(evalInput.page) > Pts(10)
  /\ ~IsInteger(SeoDrop(evalInput.page))

-----------------------------------------------------------------------------
(* The contact probe, checked under SpecEval                               *)

\* The loaded page shows no phone number, no email address and no form
NoContactChannel(p) == ~p.phoneInText /\ ~p.emailInText /\ ~p.hasForm

\* C27 (as the spec states it): the contact penalty and its issue are applied
\* exactly when the loaded page has no phone-number match, no email match and
\* no form element.
C27_ContactPenaltyWhenNoChannel ==
  EvalCompleted => (HasIssue("no-contact") <=> NoContactChannel(evalInput.page))

-----------------------------------------------------------------------------
(* The low-scoring list of scrapeResults, checked under SpecAnalyzer       *)

\* Positions in allBusinesses of the businesses lowScoringBusinesses holds
LowScoringPositions ==
  {lowScoringBusinesses[k] : k \in 1..Len(lowScoringBusinesses)}

\* C28 (as the spec states it): after every entry that has been processed,
\* every business of allBusinesses whose websiteScore is at most
\* QUALITY_THRESHOLD is also in lowScoringBusinesses, also when the CSV write
\* or the report generation for the entry failed.
C28_LowScoringComplete ==
  \A i \in 1..Len(allBusinesses) :
    allBusinesses[i].websiteScore <= Pts(QUALITY_THRESHOLD)
      => i \in LowScoringPositions

-----------------------------------------------------------------------------
(* Names and attempts, checked under SpecAnalyzer                          *)

\* The name under which the entry the for loop is at is remembered
AnalyzerCurrentName == ToLowerCase(Trim(businessElements[ai].name))
MainCurrentName == mElements[mi].name

\* Failures of the attempt on an entry: the click, the reading of the detail
\* panel, the evaluation of the web site
AttemptFaults == {"click", "extract", "detail", "evaluate"}

\* C29 (as the spec states it): a name is added to the seen set before its
\* entry is clicked, extracted or evaluated, so each distinct name is
\* attempted at most once per run: an entry whose attempt failed is not
\* retried in a later sweep and adds nothing to the output.
C29_AttemptedOnce ==
  /\ [][clicks' = clicks + 1
          => /\ apc = "entries"
                  => /\ AnalyzerCurrentName \notin processedBusinesses
                     /\ AnalyzerCurrentName \in processedBusinesses'
             /\ mpc = "entries"
                  => /\ MainCurrentName \notin processedBusinessNames
                     /\ MainCurrentName \in processedBusinessNames']_vars
  /\ [][/\ processedBusinesses \subseteq processedBusinesses'
        /\ processedBusinessNames \subseteq processedBusinessNames']_vars
  /\ [][faults' \cap AttemptFaults # {}
          => /\ allBusinesses' = allBusinesses
             /\ businesses' = businesses
             /\ businessesWithoutWebsites' = businessesWithoutWebsites]_vars

-----------------------------------------------------------------------------
(* Termination of scrapeBusinesses, checked under SpecMainFair             *)

\* C30 (as the spec states it): scrapeBusinesses terminates for every finite
\* feed: from any state of its main loop it eventually leaves the loop and
\* returns (or the process has ended under it), also when the loading
\* indicator is present on every check.
C30_Terminates == <>(mpc \in {"done", "threw", "crashed"})

====
